---- MODULE Spec2Model ----
(***************************************************************************)
(* docxmaker: DocxGenerator (save / generateDocxBuffer), its two           *)
(* registries (RelationshipsManager, ImageManager), the asset resolver,    *)
(* the element emitters and the part generators.                           *)
(*                                                                         *)
(* Strings that the code assembles from pieces (`rId${n}`,                 *)
(* `image${n}.${ext}`, `word/media/${filename}`) are sequences of string   *)
(* tokens, concatenated with \o; numbers are formatted in decimal by       *)
(* ToStr.  XML is a tree of elements [tag, rid, kids]; rid is the r:id /   *)
(* r:embed attribute (Undefined when the element has none).  Run           *)
(* properties and the other attributes that carry no relationship id are   *)
(* not part of the tree.                                                   *)
(***************************************************************************)
EXTENDS Integers, Sequences, FiniteSets, TLC

\* ------------------------------------------------------------------ bounds

\* Calls on the one generator that may be pending at a time (a settled call
\* frees its slot, so any number of calls follow one another).
MaxCalls == 2
\* Longest top-level content sequence of a definition.
MaxContent == 2
\* Most add / register calls made on a registry between two resets when the
\* registries are driven on their own.
MaxOps == 3

\* ----------------------------------------------------------------- strings

Undefined == <<>>

Digit(d) ==
  CASE d = 0 -> "0" [] d = 1 -> "1" [] d = 2 -> "2" [] d = 3 -> "3"
    [] d = 4 -> "4" [] d = 5 -> "5" [] d = 6 -> "6" [] d = 7 -> "7"
    [] d = 8 -> "8" [] d = 9 -> "9"

RECURSIVE ToStr(_)
\* Decimal formatting of a template literal `${n}`.
ToStr(n) == IF n < 10 THEN <<Digit(n)>> ELSE ToStr(n \div 10) \o <<Digit(n % 10)>>

\* ------------------------------------------------------------------- bytes

PngBytes == <<137, 80, 78, 71, 13>>
JpgBytes == <<255, 216, 255, 224>>
GifBytes == <<71, 73, 70, 56, 57>>
BmpBytes == <<66, 77, 1>>

StartsWith(b, pre) == Len(b) >= Len(pre) /\ SubSeq(b, 1, Len(pre)) = pre

\* What the byte-loader (fs.promises.readFile) returns for a readable path.
FileBytes(p) == IF p = "logo.png" THEN PngBytes ELSE JpgBytes

\* ------------------------------------------------------------------ numbers

\* A JavaScript number n / d, d > 0 (sizes, multipliers and pixel counts need
\* not be whole).  A number of numerator 0 is falsy, as undefined is.
Num(n, d) == [n |-> n, d |-> d]

NoNum == Num(0, 1)

truthy(q) == q.n # 0

\* q * k for an integer literal k.
times(q, k) == Num(q.n * k, q.d)

\* Math.round: the nearest integer, a half going up.
MathRound(q) == (2 * q.n + q.d) \div (2 * q.d)

\* The decimal string of a number that is whole or ends in one half.
NumStr(q) ==
  IF q.n % q.d = 0 THEN ToStr(q.n \div q.d)
  ELSE ToStr(q.n \div q.d) \o <<".", "5">>

\* ------------------------------------------------------- document definition

\* StyleText: every field optional ("" / FALSE / NoNum when not set); present
\* is FALSE for a node that has no style object.
Style(color, bold, italic, underline, align, fontSize, lineSpacing) ==
  [present |-> TRUE, color |-> color, bold |-> bold, italic |-> italic,
   underline |-> underline, align |-> align, fontSize |-> fontSize,
   lineSpacing |-> lineSpacing]

NoStyle == [Style("", FALSE, FALSE, FALSE, "", NoNum, NoNum) EXCEPT !.present = FALSE]


\* Image sources: { path }, a Buffer, a base64 / data-URI string, or a value
\* createImage cannot interpret.
PathSrc(p)      == [kind |-> "path", path |-> p, data |-> <<>>, datauri |-> FALSE, fmt |-> ""]
BytesSrc(b)     == [kind |-> "bytes", path |-> "", data |-> b, datauri |-> FALSE, fmt |-> ""]
DataUriSrc(f, b) == [kind |-> "string", path |-> "", data |-> b, datauri |-> TRUE, fmt |-> f]
Base64Src(b)    == [kind |-> "string", path |-> "", data |-> b, datauri |-> FALSE, fmt |-> ""]
OtherSrc        == [kind |-> "other", path |-> "", data |-> <<>>, datauri |-> FALSE, fmt |-> ""]

NoSrc == [kind |-> "none", path |-> "", data |-> <<>>, datauri |-> FALSE, fmt |-> ""]

\* A node without a style; an image node without width and height.
Node(t, u, s, c, r) ==
  [type |-> t, url |-> u, image |-> s, content |-> c, rows |-> r,
   style |-> NoStyle, width |-> NoNum, height |-> NoNum]

Styled(node, st) == [node EXCEPT !.style = st]
Sized(node, w, h) == [node EXCEPT !.width = w, !.height = h]

StringNode    == Node("string", "", NoSrc, <<>>, <<>>)
TextNode      == Node("text", "", NoSrc, <<>>, <<>>)
LinkNode(u)   == Node("link", u, NoSrc, <<>>, <<>>)
ImageNode(s)  == Node("image", "", s, <<>>, <<>>)
Paragraph(c)  == Node("paragraph", "", NoSrc, c, <<>>)
Table(rs)     == Node("table", "", NoSrc, <<>>, rs)
Row(cs)       == [cells |-> cs]
Cell(c)       == [content |-> c, style |-> NoStyle]

\* Header / footer definitions: absent, or a content sequence.
NoHF     == [present |-> FALSE, content |-> <<>>]
HF(c)    == [present |-> TRUE, content |-> c]

\* ------------------------------------------------------ RelationshipsManager

TypeHyperlink == "relationships/hyperlink"
TypeImage     == "relationships/image"
TypeHeader    == "relationships/header"
TypeFooter    == "relationships/footer"

NewRelationshipsManager == [nextRelId |-> 1, relationships |-> <<>>]

\* An id taken without advancing the counter.
getNextRelIdStuck(rm) ==
  [relId |-> <<"rId">> \o ToStr(rm.nextRelId), rm |-> rm]

\* getNextRelId: `rId${this.nextRelId++}`: the id, and the manager after it.
getNextRelId(rm) ==
  [relId |-> <<"rId">> \o ToStr(rm.nextRelId),
   rm    |-> [rm EXCEPT !.nextRelId = rm.nextRelId + 1]]

pushRelationship(rm, type, target, isExternal) ==
  LET g == getNextRelId(rm) IN
  [relId |-> g.relId,
   rm    |-> [g.rm EXCEPT !.relationships =
                Append(g.rm.relationships,
                       [id |-> g.relId, type |-> type, target |-> target,
                        isExternal |-> isExternal])]]

addHyperlink(rm, url)       == pushRelationship(rm, TypeHyperlink, <<url>>, TRUE)
addImage(rm, filename)      == pushRelationship(rm, TypeImage, <<"media/">> \o filename, FALSE)
addHeader(rm, targetFilename) == pushRelationship(rm, TypeHeader, <<targetFilename>>, FALSE)
addFooter(rm, targetFilename) == pushRelationship(rm, TypeFooter, <<targetFilename>>, FALSE)

hasRelationships(rm) == Len(rm.relationships) > 0

\* A reset that keeps the records and the counter.
resetRelationshipsKeeping(rm) == rm

\* reset: this.relationships = []; this.nextRelId = 1
resetRelationships(rm) == [nextRelId |-> 1, relationships |-> <<>>]

\* generateDocumentRelsXml: one <Relationship> per record, in insertion order;
\* TargetMode="External" only on external records.
generateDocumentRelsXml(rm) ==
  [i \in 1..Len(rm.relationships) |->
     LET rel == rm.relationships[i] IN
     [Id |-> rel.id, Type |-> rel.type, Target |-> rel.target,
      TargetMode |-> IF rel.isExternal THEN "External" ELSE ""]]

\* generateMainRelsXml: the fixed package relationship.
generateMainRelsXml ==
  <<[Id |-> <<"rId", "1">>, Type |-> "relationships/officeDocument",
     Target |-> <<"word/document.xml">>, TargetMode |-> ""]>>

\* ------------------------------------------------------------- ImageManager

NewImageManager == [nextImageId |-> 1, images |-> <<>>]

\* A registration that names the file without advancing the counter.
registerImageStuck(im, data, extension) ==
  [filename |-> <<"image">> \o ToStr(im.nextImageId) \o <<".", extension>>,
   im |-> [im EXCEPT !.images =
             Append(@, [filename |-> <<"image">> \o ToStr(im.nextImageId) \o <<".", extension>>,
                        data |-> data])]]

\* registerImage: `image${this.nextImageId++}.${extension}`.
registerImage(im, data, extension) ==
  LET filename == <<"image">> \o ToStr(im.nextImageId) \o <<".", extension>> IN
  [filename |-> filename,
   im |-> [nextImageId |-> im.nextImageId + 1,
           images |-> Append(im.images, [filename |-> filename, data |-> data])]]

\* A reset that keeps the images and the counter.
resetImagesKeeping(im) == im

resetImages(im) == [nextImageId |-> 1, images |-> <<>>]

\* ---------------------------------------------------------------------- XML

\* An element: its tag, the relationship id it references (r:id / r:embed),
\* its children, and val, the values of its other attributes that depend on
\* the input, each the string written.
El(tag, rid, kids) == [tag |-> tag, rid |-> rid, kids |-> kids, val |-> <<>>]

ElVal(tag, val) == [tag |-> tag, rid |-> Undefined, kids |-> <<>>, val |-> val]

\* if (cond) x.ele(...)
Opt(cond, el) == IF cond THEN <<el>> ELSE <<>>

NoXml == El("", Undefined, <<>>)

\* parent.ele(...) with the child's subtree complete.
AppendKid(parent, kid) == [parent EXCEPT !.kids = Append(parent.kids, kid)]

\* Emitters that each run against registries of their own, never the
\* instance's.
CtxOfItsOwn(rm, im, err) == [rm |-> NewRelationshipsManager, im |-> NewImageManager, err |-> err]

\* The emitters run against both registries; err is the message of the Error
\* thrown, "" while none was.
Ctx(rm, im, err) == [rm |-> rm, im |-> im, err |-> err]

\* const sizeVal = style.fontSize * 2
sizeVal(fontSize) == times(fontSize, 2)

\* The multiplier times 240 with its fraction cut off.
spacingValueTruncated(lineSpacing) == (lineSpacing.n * 240) \div lineSpacing.d

\* const spacingValue = Math.round(style.lineSpacing * 240)
spacingValue(lineSpacing) == MathRound(times(lineSpacing, 240))

\* w:spacing with w:line and w:lineRule 'auto'.
spacing(lineSpacing) == ElVal("w:spacing", <<ToStr(spacingValue(lineSpacing)), <<"auto">>>>)

\* const wordAlign = align === 'justify' ? 'both' : align
wordAlign(align) == IF align = "justify" THEN "both" ELSE align

\* A style in which every field the child leaves unset is the parent's.
textStyleMerged(input, defaultStyle) ==
  IF input.type = "string" \/ ~input.style.present THEN defaultStyle
  ELSE IF ~defaultStyle.present THEN input.style
  ELSE Style(IF input.style.color # "" THEN input.style.color ELSE defaultStyle.color,
             input.style.bold \/ defaultStyle.bold,
             input.style.italic \/ defaultStyle.italic,
             input.style.underline \/ defaultStyle.underline,
             IF input.style.align # "" THEN input.style.align ELSE defaultStyle.align,
             IF truthy(input.style.fontSize) THEN input.style.fontSize ELSE defaultStyle.fontSize,
             IF truthy(input.style.lineSpacing) THEN input.style.lineSpacing
             ELSE defaultStyle.lineSpacing)

\* const style = typeof input === 'string' ? defaultStyle : input.style || defaultStyle
textStyle(input, defaultStyle) ==
  IF input.type = "string" THEN defaultStyle
  ELSE IF input.style.present THEN input.style
  ELSE defaultStyle

\* The w:rPr of a text run: color, b, i, u, sz, each when the style sets it.
textRunProperties(st) ==
  El("w:rPr", Undefined,
     Opt(st.color # "", ElVal("w:color", <<<<st.color>>>>))
     \o Opt(st.bold, El("w:b", Undefined, <<>>))
     \o Opt(st.italic, El("w:i", Undefined, <<>>))
     \o Opt(st.underline, ElVal("w:u", <<<<"single">>>>))
     \o Opt(truthy(st.fontSize), ElVal("w:sz", <<NumStr(sizeVal(st.fontSize))>>)))

textRun(st) ==
  El("w:r", Undefined, Opt(st.present, textRunProperties(st)) \o <<El("w:t", Undefined, <<>>)>>)

\* createText: one run holding the text, with a w:rPr when there is a style.
createText(p, input, defaultStyle) == AppendKid(p, textRun(textStyle(input, defaultStyle)))

\* The w:rPr of a link's run: the color (306A7C when the style names none),
\* a single underline always, then b, i, sz when the style sets them.
linkRunProperties(st) ==
  El("w:rPr", Undefined,
     <<ElVal("w:color", <<<<IF st.present /\ st.color # "" THEN st.color ELSE "306A7C">>>>),
       ElVal("w:u", <<<<"single">>>>)>>
     \o Opt(st.present /\ st.bold, El("w:b", Undefined, <<>>))
     \o Opt(st.present /\ st.italic, El("w:i", Undefined, <<>>))
     \o Opt(st.present /\ truthy(st.fontSize), ElVal("w:sz", <<NumStr(sizeVal(st.fontSize))>>)))

\* createlink: a hyperlink element referencing relId, wrapping one run.
createlink(p, link, relId) ==
  AppendKid(p, El("w:hyperlink", relId,
                  <<El("w:r", Undefined, <<linkRunProperties(link.style),
                                           El("w:t", Undefined, <<>>)>>)>>))

HexDigit(n) ==
  CASE n = 10 -> "A" [] n = 11 -> "B" [] n = 12 -> "C" [] n = 13 -> "D"
    [] n = 14 -> "E" [] n = 15 -> "F" [] OTHER -> Digit(n)

RECURSIVE toHexUpper(_)
\* buffer.toString('hex').toUpperCase(): two digits for each byte.
toHexUpper(b) ==
  IF b = <<>> THEN <<>>
  ELSE <<HexDigit(b[1] \div 16), HexDigit(b[1] % 16)>> \o toHexUpper(Tail(b))

\* imageBuffer.subarray(0, 4)
subarray4(imageBuffer) ==
  SubSeq(imageBuffer, 1, IF Len(imageBuffer) < 4 THEN Len(imageBuffer) ELSE 4)

\* A detection that takes FFD8 alone for a JPEG.
extensionOfHexShortJpg(headerHex) ==
  IF StartsWith(headerHex, <<"8", "9", "5", "0", "4", "E", "4", "7">>) THEN "png"
  ELSE IF StartsWith(headerHex, <<"F", "F", "D", "8">>) THEN "jpg"
  ELSE IF StartsWith(headerHex, <<"4", "7", "4", "9", "4", "6", "3", "8">>) THEN "gif"
  ELSE IF StartsWith(headerHex, <<"4", "2", "4", "D">>) THEN "bmp"
  ELSE "png"

\* The chain of headerHex.startsWith tests; extension stays 'png' when none
\* matches.
extensionOfHex(headerHex) ==
  IF StartsWith(headerHex, <<"8", "9", "5", "0", "4", "E", "4", "7">>) THEN "png"
  ELSE IF StartsWith(headerHex, <<"F", "F", "D", "8", "F", "F">>) THEN "jpg"
  ELSE IF StartsWith(headerHex, <<"4", "7", "4", "9", "4", "6", "3", "8">>) THEN "gif"
  ELSE IF StartsWith(headerHex, <<"4", "2", "4", "D">>) THEN "bmp"
  ELSE "png"

\* The extension createImage detects from the magic number of raw bytes.
detectExtension(imageBuffer) == extensionOfHex(toHexUpper(subarray4(imageBuffer)))

\* const widthPx = image.width || 100; const heightPx = image.height || 100
widthPx(image)  == IF truthy(image.width) THEN image.width ELSE Num(100, 1)
heightPx(image) == IF truthy(image.height) THEN image.height ELSE Num(100, 1)

\* const widthEmu = Math.round(widthPx * 9525)
widthEmu(image) == MathRound(times(widthPx(image), 9525))

\* A height taken from the width.
heightEmuOfWidth(image) == MathRound(times(widthPx(image), 9525))

\* const heightEmu = Math.round(heightPx * 9525)
heightEmu(image) == MathRound(times(heightPx(image), 9525))

\* { cx: widthEmu.toString(), cy: heightEmu.toString() }
extentOf(image) == <<ToStr(widthEmu(image)), ToStr(heightEmu(image))>>

\* The inline-drawing block of one image: a w:p of its own under parent, the
\* extent on wp:extent and on a:ext, the blip embedding relId.
drawingParagraph(image, relId) ==
  El("w:p", Undefined,
     <<El("w:r", Undefined,
          <<El("w:drawing", Undefined,
               <<El("wp:inline", Undefined,
                    <<ElVal("wp:extent", extentOf(image)),
                      El("wp:docPr", Undefined, <<>>),
                      El("a:graphic", Undefined,
                         <<El("pic:pic", Undefined,
                              <<El("a:blip", relId, <<>>),
                                El("pic:spPr", Undefined,
                                   <<El("a:xfrm", Undefined,
                                        <<El("a:off", Undefined, <<>>),
                                          ElVal("a:ext", extentOf(image))>>)>>)>>)>>)>>)>>)>>)>>)

\* An emission in progress: the parent element built so far, and the
\* registries as the emitters have left them (with the error thrown, if any).
Emission(parent, ctx) == [parent |-> parent, ctx |-> ctx]

\* A throw that comes after the image was registered.
ThrownOnceRegistered(parent, ctx, message) ==
  Emission(parent, [ctx EXCEPT !.im = registerImage(ctx.im, <<>>, "png").im,
                               !.rm = addImage(ctx.rm, registerImage(ctx.im, <<>>, "png").filename).rm,
                               !.err = message])

Thrown(parent, ctx, message) == Emission(parent, [ctx EXCEPT !.err = message])

\* The tail of createImage once the source is a buffer with an extension:
\* registerImage, then getImageRelId (addImage), then the drawing paragraph.
registeredImage(parent, ctx, reg) == Emission(parent, [ctx EXCEPT !.im = reg.im])

relatedImage(e, image, rel) ==
  Emission(AppendKid(e.parent, drawingParagraph(image, rel.relId)), [e.ctx EXCEPT !.rm = rel.rm])

emitImage(parent, image, ctx, reg) ==
  relatedImage(registeredImage(parent, ctx, reg), image, addImage(ctx.rm, reg.filename))

\* The extension createImage gives a string source: the format a data URI
\* names (jpeg becoming jpg), png for a plain base64 payload.
stringExtension(src) ==
  IF src.datauri THEN (IF src.fmt = "jpeg" THEN "jpg" ELSE src.fmt) ELSE "png"

\* createImage: normalise the source, register the image, obtain its
\* relationship id, append the drawing paragraph to parent.  A { path } source
\* and a source toBuffer cannot interpret throw before anything is registered.
createImage(parent, image, ctx) ==
  IF image.image.kind = "string"
    THEN emitImage(parent, image, ctx,
                   registerImage(ctx.im, image.image.data, stringExtension(image.image)))
  ELSE IF image.image.kind = "path"
    THEN Thrown(parent, ctx, "Image with { path } must be resolved to Buffer before createImage()")
  ELSE IF image.image.kind # "bytes"
    THEN Thrown(parent, ctx, "Unsupported image input")
  ELSE emitImage(parent, image, ctx,
                 registerImage(ctx.im, image.image.data, detectExtension(image.image.data)))

\* A link emitted with an id whose record is dropped.
linkPartUnrecorded(p, part, ctx, rel) == Emission(createlink(p, part, rel.relId), ctx)

\* A link part: getHyperlinkRelId(part.url), then createlink with that id.
linkPart(p, part, ctx, rel) == Emission(createlink(p, part, rel.relId), [ctx EXCEPT !.rm = rel.rm])

\* One content part of a paragraph or of a table cell, appended to p: a string
\* or styled text is a run with the container's style as its default, a link
\* registers a hyperlink relationship, an image goes through createImage (the
\* three callbacks are the registries' methods).
inlinePart(p, part, ctx, defaultStyle) ==
  IF part.type \in {"string", "text"} THEN Emission(createText(p, part, defaultStyle), ctx)
  ELSE IF part.type = "link" THEN linkPart(p, part, ctx, addHyperlink(ctx.rm, part.url))
  ELSE IF part.type = "image" THEN createImage(p, part, ctx)
  ELSE Emission(p, ctx)

RECURSIVE inlineParts(_, _, _, _)
\* for (const part of content) ...: parts i.. of content into e.parent,
\* stopping at a throw.
inlineParts(e, content, i, defaultStyle) ==
  IF i > Len(content) \/ e.ctx.err # "" THEN e
  ELSE inlineParts(inlinePart(e.parent, content[i], e.ctx, defaultStyle), content, i + 1,
                   defaultStyle)

\* parent.ele(...) for the element an inner emission has filled.
Attach(parent, e) == Emission(AppendKid(parent, e.parent), e.ctx)

\* The w:pPr of a paragraph that has a style: a w:rPr (color, b, i, u, then
\* sz), w:jc and w:spacing, in the order the elements are created under pPr.
paragraphProperties(st) ==
  El("w:pPr", Undefined,
     <<El("w:rPr", Undefined,
          Opt(st.color # "", ElVal("w:color", <<<<st.color>>>>))
          \o Opt(st.bold, El("w:b", Undefined, <<>>))
          \o Opt(st.italic, El("w:i", Undefined, <<>>))
          \o Opt(st.underline, ElVal("w:u", <<<<"single">>>>))
          \o Opt(truthy(st.fontSize), ElVal("w:sz", <<NumStr(sizeVal(st.fontSize))>>)))>>
     \o Opt(st.align # "", ElVal("w:jc", <<<<wordAlign(st.align)>>>>))
     \o Opt(truthy(st.lineSpacing), spacing(st.lineSpacing)))

\* createParagraph: one w:p appended to parent, with a w:pPr when the
\* paragraph has a style; its parts emitted into it, their default style the
\* paragraph's.
createParagraph(parent, paragraph, ctx) ==
  Attach(parent,
         inlineParts(Emission(El("w:p", Undefined,
                                 Opt(paragraph.style.present, paragraphProperties(paragraph.style))),
                              ctx),
                     paragraph.content, 1, paragraph.style))

\* A cell: w:tc holding w:tcPr and the one w:p the content went into.
AttachCell(tr, e) ==
  Emission(AppendKid(tr, El("w:tc", Undefined, <<El("w:tcPr", Undefined, <<>>), e.parent>>)), e.ctx)

\* const pPr = p.ele('w:pPr'), with w:jc when the cell's style aligns.
cellParagraphProperties(st) ==
  El("w:pPr", Undefined, Opt(st.present /\ st.align # "", ElVal("w:jc", <<<<wordAlign(st.align)>>>>)))

RECURSIVE tableCells(_, _, _)
\* for (const cell of row.cells)
tableCells(e, cells, j) ==
  IF j > Len(cells) \/ e.ctx.err # "" THEN e
  ELSE tableCells(
         AttachCell(e.parent,
                    inlineParts(Emission(El("w:p", Undefined, <<cellParagraphProperties(cells[j].style)>>),
                                         e.ctx),
                                cells[j].content, 1, cells[j].style)),
         cells, j + 1)

RECURSIVE tableRows(_, _, _)
\* for (const row of table.rows)
tableRows(e, rows, i) ==
  IF i > Len(rows) \/ e.ctx.err # "" THEN e
  ELSE tableRows(
         Attach(e.parent, tableCells(Emission(El("w:tr", Undefined, <<>>), e.ctx), rows[i].cells, 1)),
         rows, i + 1)

\* createTable: one w:tbl appended to parent.
createTable(parent, table, ctx) ==
  Attach(parent,
         tableRows(Emission(El("w:tbl", Undefined, <<El("w:tblPr", Undefined, <<>>)>>), ctx),
                   table.rows, 1))

\* The w:pPr of a top-level styled text: w:jc and w:spacing.
textParagraphProperties(st) ==
  El("w:pPr", Undefined,
     Opt(st.align # "", ElVal("w:jc", <<<<wordAlign(st.align)>>>>))
     \o Opt(truthy(st.lineSpacing), spacing(st.lineSpacing)))

\* One top-level item of a part (main body, header or footer).  A type none
\* of the branches names (a top-level link) appends nothing.
partItem(root, item, ctx) ==
  IF item.type = "string"
    THEN Emission(AppendKid(root, createText(El("w:p", Undefined, <<>>), item, NoStyle)), ctx)
  ELSE IF item.type = "text"
    THEN Emission(AppendKid(root, createText(El("w:p", Undefined,
                                                Opt(item.style.present,
                                                    textParagraphProperties(item.style))),
                                             item, NoStyle)), ctx)
  ELSE IF item.type = "paragraph" THEN createParagraph(root, item, ctx)
  ELSE IF item.type = "table" THEN createTable(root, item, ctx)
  ELSE IF item.type = "image" THEN createImage(root, item, ctx)
  ELSE Emission(root, ctx)

RECURSIVE partItems(_, _, _)
\* for (const item of content)
partItems(e, content, i) ==
  IF i > Len(content) \/ e.ctx.err # "" THEN e
  ELSE partItems(partItem(e.parent, content[i], e.ctx), content, i + 1)

\* root.end(): the part's XML, with the registries as its emitters left them.
Generated(xml, ctx) == [xml |-> xml, ctx |-> ctx]

EndOf(e) == Generated(e.parent, e.ctx)

\* generateHeaderXml / generateFooterXml: the items under a w:hdr / w:ftr root.
generateHeaderXml(def, ctx) ==
  EndOf(partItems(Emission(El("w:hdr", Undefined, <<>>), ctx), def.content, 1))

generateFooterXml(def, ctx) ==
  EndOf(partItems(Emission(El("w:ftr", Undefined, <<>>), ctx), def.content, 1))

\* The section properties closing the body: a header / footer reference of
\* type default for each relationship id supplied.
\* Section properties with the two ids exchanged.
sectPrSwapped(headerRelId, footerRelId) ==
  El("w:sectPr", Undefined,
     (IF footerRelId # Undefined THEN <<El("w:headerReference", footerRelId, <<>>)>> ELSE <<>>)
     \o (IF headerRelId # Undefined THEN <<El("w:footerReference", headerRelId, <<>>)>> ELSE <<>>))

\* const sectPr = root.ele('w:sectPr'), with the optional references.
sectPr(headerRelId, footerRelId) ==
  El("w:sectPr", Undefined,
     (IF headerRelId # Undefined THEN <<El("w:headerReference", headerRelId, <<>>)>> ELSE <<>>)
     \o (IF footerRelId # Undefined THEN <<El("w:footerReference", footerRelId, <<>>)>> ELSE <<>>))

EndOfBody(e, headerRelId, footerRelId) ==
  Generated(El("w:document", Undefined, <<AppendKid(e.parent, sectPr(headerRelId, footerRelId))>>),
            e.ctx)

\* generateDocumentXml: w:document > w:body > items, then w:sectPr.
generateDocumentXml(definition, ctx, headerRelId, footerRelId) ==
  EndOfBody(partItems(Emission(El("w:body", Undefined, <<>>), ctx), definition.content, 1),
            headerRelId, footerRelId)

\* Content types that declare the header and the footer whatever the flags.
generateContentTypesXmlBoth(hasHeader, hasFooter) ==
  {"/word/document.xml", "/word/header1.xml", "/word/footer1.xml"}

\* generateContentTypesXml: the overrides (the defaults are fixed).
generateContentTypesXml(hasHeader, hasFooter) ==
  {"/word/document.xml"}
    \cup (IF hasHeader THEN {"/word/header1.xml"} ELSE {})
    \cup (IF hasFooter THEN {"/word/footer1.xml"} ELSE {})

\* ------------------------------------------------------------ resolveAssets

isPathImage(item) == item.type = "image" /\ item.image.kind = "path"

RECURSIVE pathsOfItems(_, _)
\* The paths processItem reads over a content sequence, in the order of its
\* awaits (paragraph and cell contents hold no nested containers).
pathsOfItems(content, i) ==
  IF i > Len(content) THEN <<>>
  ELSE (IF isPathImage(content[i]) THEN <<content[i].image.path>> ELSE <<>>)
       \o pathsOfItems(content, i + 1)

RECURSIVE pathsOfCells(_, _)
pathsOfCells(cells, j) ==
  IF j > Len(cells) THEN <<>>
  ELSE pathsOfItems(cells[j].content, 1) \o pathsOfCells(cells, j + 1)

RECURSIVE pathsOfRows(_, _)
pathsOfRows(rows, i) ==
  IF i > Len(rows) THEN <<>>
  ELSE pathsOfCells(rows[i].cells, 1) \o pathsOfRows(rows, i + 1)

pathsOfTop(item) ==
  IF isPathImage(item) THEN <<item.image.path>>
  ELSE IF item.type = "paragraph" THEN pathsOfItems(item.content, 1)
  ELSE IF item.type = "table" THEN pathsOfRows(item.rows, 1)
  ELSE <<>>

RECURSIVE pathsOfContent(_, _)
pathsOfContent(content, i) ==
  IF i > Len(content) THEN <<>>
  ELSE pathsOfTop(content[i]) \o pathsOfContent(content, i + 1)

\* Every readFile of one resolveAssets pass, in order: content, then the
\* header and the footer when their content is not empty.
pathsOfDefinition(def) ==
  pathsOfContent(def.content, 1)
    \o (IF def.header.present /\ Len(def.header.content) > 0
          THEN pathsOfContent(def.header.content, 1) ELSE <<>>)
    \o (IF def.footer.present /\ Len(def.footer.content) > 0
          THEN pathsOfContent(def.footer.content, 1) ELSE <<>>)

\* structuredClone(def): a deep, independent copy with the same value.
structuredClone(def) == def

\* processItem on an image node: a path source becomes the bytes read
\* ({ ...item, image: data }), any other source is returned as it is.  acc is
\* the output built so far and the number of reads already placed.
Acc(out, n) == [out |-> out, n |-> n]

pushItem(acc, item, loaded) ==
  IF isPathImage(item)
    THEN Acc(Append(acc.out, [item EXCEPT !.image = BytesSrc(loaded[acc.n + 1])]), acc.n + 1)
    ELSE Acc(Append(acc.out, item), acc.n)

RECURSIVE processItems(_, _, _, _)
\* for (const c of content) out.push(await processItem(c)) over inline parts.
processItems(acc, content, i, loaded) ==
  IF i > Len(content) THEN acc
  ELSE processItems(pushItem(acc, content[i], loaded), content, i + 1, loaded)

\* A cell pushed as it was, its processed content dropped.
pushCellUnprocessed(acc, cell, inner) == Acc(Append(acc.out, cell), inner.n)

\* cells.push({ ...cell, content: cellContent })
pushCell(acc, cell, inner) == Acc(Append(acc.out, [cell EXCEPT !.content = inner.out]), inner.n)

RECURSIVE processCells(_, _, _, _)
processCells(acc, cells, j, loaded) ==
  IF j > Len(cells) THEN acc
  ELSE processCells(
         pushCell(acc, cells[j], processItems(Acc(<<>>, acc.n), cells[j].content, 1, loaded)),
         cells, j + 1, loaded)

\* rows.push({ ...row, cells })
pushRow(acc, row, inner) == Acc(Append(acc.out, [row EXCEPT !.cells = inner.out]), inner.n)

RECURSIVE processRows(_, _, _, _)
processRows(acc, rows, i, loaded) ==
  IF i > Len(rows) THEN acc
  ELSE processRows(
         pushRow(acc, rows[i], processCells(Acc(<<>>, acc.n), rows[i].cells, 1, loaded)),
         rows, i + 1, loaded)

pushParagraph(acc, item, inner) == Acc(Append(acc.out, [item EXCEPT !.content = inner.out]), inner.n)
pushTable(acc, item, inner)     == Acc(Append(acc.out, [item EXCEPT !.rows = inner.out]), inner.n)

\* out.push(await processItem(it)) for a top-level item.
processItem(acc, item, loaded) ==
  IF item.type = "string" THEN Acc(Append(acc.out, item), acc.n)
  ELSE IF item.type = "image" THEN pushItem(acc, item, loaded)
  ELSE IF item.type = "paragraph"
    THEN pushParagraph(acc, item, processItems(Acc(<<>>, acc.n), item.content, 1, loaded))
  ELSE IF item.type = "table"
    THEN pushTable(acc, item, processRows(Acc(<<>>, acc.n), item.rows, 1, loaded))
  ELSE Acc(Append(acc.out, item), acc.n)

RECURSIVE processContent(_, _, _, _)
processContent(acc, content, i, loaded) ==
  IF i > Len(content) THEN acc
  ELSE processContent(processItem(acc, content[i], loaded), content, i + 1, loaded)

\* The header or footer of the result: processed when its content is not
\* empty, the clone's own otherwise.
processHeaderFooter(hf, n, loaded) ==
  IF hf.present /\ Len(hf.content) > 0
    THEN processContent(Acc(<<>>, n), hf.content, 1, loaded)
    ELSE Acc(hf.content, n)

withFooter(deepClone, c, h, f) ==
  [content |-> c.out,
   header  |-> [deepClone.header EXCEPT !.content = h.out],
   footer  |-> [deepClone.footer EXCEPT !.content = f.out]]

withHeader(deepClone, c, h, loaded) ==
  withFooter(deepClone, c, h, processHeaderFooter(deepClone.footer, h.n, loaded))

withContent(deepClone, c, loaded) ==
  withHeader(deepClone, c, processHeaderFooter(deepClone.header, c.n, loaded), loaded)

\* The definition resolveAssets returns once every read has succeeded:
\* { ...deepClone, content: out, header, footer }.
resolvedDefinition(deepClone, loaded) ==
  withContent(deepClone, processContent(Acc(<<>>, 0), deepClone.content, 1, loaded), loaded)

\* The loaded bytes written into the caller's object.
definitionAfterReadInPlace(def, loaded) ==
  IF loaded # <<>> /\ Len(loaded) = Len(pathsOfDefinition(def))
    THEN resolvedDefinition(def, loaded)
    ELSE def

\* The caller's definition object after one read of the pass: the pass works
\* on the clone and builds new nodes, so the object is left as it was.
definitionAfterRead(def, loaded) == def

toLowerCase(ext) == IF ext = ".DOCX" THEN ".docx" ELSE ext

\* A check that lets every extension through.
ensureDocxPathAny(outputPath) ==
  IF outputPath.ext = "" THEN [ok |-> TRUE, path |-> [outputPath EXCEPT !.ext = ".docx"]]
  ELSE [ok |-> TRUE, path |-> outputPath]

\* A check that appends nothing.
ensureDocxPathAsGiven(outputPath) ==
  IF outputPath.ext = "" \/ toLowerCase(outputPath.ext) = ".docx"
    THEN [ok |-> TRUE, path |-> outputPath]
    ELSE [ok |-> FALSE, path |-> outputPath]

\* ensureDocxPath: no extension: append .docx; .docx in any case: keep;
\* anything else: throw (ok = FALSE).
ensureDocxPath(outputPath) ==
  IF outputPath.ext = "" THEN [ok |-> TRUE, path |-> [outputPath EXCEPT !.ext = ".docx"]]
  ELSE IF toLowerCase(outputPath.ext) = ".docx" THEN [ok |-> TRUE, path |-> outputPath]
  ELSE [ok |-> FALSE, path |-> outputPath]

\* ---------------------------------------------------------------- the zip

Part(path, xml, rels, data, overrides) ==
  [path |-> path, xml |-> xml, rels |-> rels, data |-> data, overrides |-> overrides]

ContentTypesPath == <<"[Content_Types].xml">>
MainRelsPath     == <<"_rels/", ".rels">>
DocumentPath     == <<"word/", "document.xml">>
HeaderPath       == <<"word/", "header1.xml">>
FooterPath       == <<"word/", "footer1.xml">>
DocumentRelsPath == <<"word/", "_rels/", "document.xml.rels">>
MediaPath(filename) == <<"word/media/">> \o filename

\* zip.file(name, content): a new entry, or the entry of that name replaced.
\* (The directory entries JSZip adds for folders are not parts.)
zipFile(zip, part) ==
  IF \E i \in 1..Len(zip) : zip[i].path = part.path
    THEN [i \in 1..Len(zip) |-> IF zip[i].path = part.path THEN part ELSE zip[i]]
    ELSE Append(zip, part)

\* Media that is never filed.
saveNoImagesToZip(zip, images, i) == zip

RECURSIVE saveImagesToZip(_, _, _)
\* for (const img of this.images) zip.file(`word/media/${img.filename}`, img.data)
saveImagesToZip(zip, images, i) ==
  IF i > Len(images) THEN zip
  ELSE saveImagesToZip(
         zipFile(zip, Part(MediaPath(images[i].filename), NoXml, <<>>, images[i].data, {})),
         images, i + 1)

\* ----------------------------------------------------------------- inputs

Urls == {"https://a"}

InlineContents ==
  { <<LinkNode("https://a"), LinkNode("https://a")>>,
    <<ImageNode(PathSrc("photo.jpg")), StringNode>> }

TopNodes ==
  { StringNode, LinkNode("https://a"),
    ImageNode(PathSrc("logo.png")), ImageNode(BytesSrc(GifBytes)), ImageNode(OtherSrc) }
  \cup { Paragraph(c) : c \in InlineContents }
  \cup { Table(<<Row(<<Cell(<<LinkNode("https://a"), ImageNode(DataUriSrc("jpeg", JpgBytes))>>)>>)>>) }

RECURSIVE SeqsUpTo(_, _)
SeqsUpTo(S, n) ==
  IF n = 0 THEN {<<>>}
  ELSE LET shorter == SeqsUpTo(S, n - 1) IN
       shorter \cup { Append(q, x) : q \in {r \in shorter : Len(r) = n - 1}, x \in S }

HeaderFooters ==
  { NoHF, HF(<<>>),
    HF(<<Paragraph(<<LinkNode("https://a"), ImageNode(PathSrc("photo.jpg"))>>)>>) }

Definitions ==
  [content : SeqsUpTo(TopNodes, MaxContent), header : HeaderFooters, footer : HeaderFooters]

OutputPaths ==
  { [stem |-> "report", ext |-> ""], [stem |-> "report", ext |-> ".docx"],
    [stem |-> "report", ext |-> ".zip"] }

NoPath == [stem |-> "", ext |-> ""]
DiskPaths == OutputPaths

EmptyDefinition == [content |-> <<>>, header |-> NoHF, footer |-> NoHF]

\* ------------------------------------------------------------------ state

VARIABLES
  definition,    \* the definition object given to the constructor
  relManager,    \* this.relManager: [nextRelId, relationships]
  imageManager,  \* this.imageManager: [nextImageId, images]
  calls,         \* the save / generateDocxBuffer calls made on the generator
  disk,          \* the file at each output path: "absent", "partial", "complete"
  history,       \* the registries driven on their own: the add / register
                 \* calls made since each registry's last reset, with what
                 \* each returned
  construction,  \* how the generator came to be: the constructor's argument
                 \* and its outcome
  other,         \* a second generator instance: its definition, registries
                 \* and calls, while its continuations are not the ones running
  element        \* an emitter called on its own: the parent element it
                 \* appended to, the error it threw, and the call made (the
                 \* emitter, the node, the default style, the registries before)

vars == <<definition, relManager, imageManager, calls, disk, history, construction, other, element>>

CallIds == 1..MaxCalls

NoOptions == [compression |-> "", level |-> 0, streamFiles |-> FALSE]
NoError   == [name |-> "", message |-> "", originalError |-> ""]

\* One call: where it stands (pc), the locals of save / generateDocxBuffer /
\* resolveAssets / generateZipContent, what it handed to the packaging sink,
\* the error it rejected with, and its history: log is the sequence of steps
\* taken, regRels / regImages the registry entries its own emitters created,
\* stale whether the registries held entries of an earlier call when it began.
IdleCall ==
  [kind |-> "none", pc |-> "idle", finalPath |-> NoPath,
   deepClone |-> EmptyDefinition, loaded |-> <<>>, resolved |-> EmptyDefinition,
   hasHeader |-> FALSE, hasFooter |-> FALSE,
   headerRelId |-> Undefined, footerRelId |-> Undefined,
   documentXml |-> NoXml, zip |-> <<>>,
   handed |-> FALSE, sunk |-> <<>>, options |-> NoOptions,
   error |-> NoError, log |-> <<>>, regRels |-> <<>>, regImages |-> <<>>,
   stale |-> FALSE]

Terminal == {"done", "failed"}

\* The generator of a valid definition, constructed: constructor(definition)
\* passed its check and made the two registries.
Constructed == [status |-> "ready", given |-> TRUE, contentIsArray |-> TRUE,
                static |-> FALSE, error |-> NoError]

\* A generator instance: new DocxGenerator(def).
NewInstance(def) ==
  [definition |-> def, relManager |-> NewRelationshipsManager,
   imageManager |-> NewImageManager, calls |-> [c \in CallIds |-> IdleCall]]

\* No second instance.
NoInstance == NewInstance(EmptyDefinition)

\* The parent element an emitter is handed: an empty body.
Root == El("w:body", Undefined, <<>>)

\* No emitter called yet.
NoElement ==
  [parent |-> Root, err |-> "", op |-> "none", node |-> StringNode, defaultStyle |-> NoStyle,
   rmBefore |-> NewRelationshipsManager, imBefore |-> NewImageManager, count |-> 0]

NoHistory == [rel |-> <<>>, img |-> <<>>, relReset |-> FALSE, imgReset |-> FALSE]

Init ==
  /\ definition \in Definitions
  /\ relManager = NewRelationshipsManager
  /\ imageManager = NewImageManager
  /\ calls = [c \in CallIds |-> IdleCall]
  /\ disk = [p \in DiskPaths |-> "absent"]
  /\ history = NoHistory
  /\ construction = Constructed
  /\ other = NoInstance
  /\ element = NoElement

FailureMessage(kind) ==
  IF kind = "save" THEN "Failed to save DOCX file." ELSE "Failed to generate DOCX buffer."

\* A catch that rethrows the message without the error it caught.
CaughtWithoutCause(call, cause) ==
  [call EXCEPT !.pc = "failed",
               !.error = [name |-> "DocxGenerationError",
                          message |-> FailureMessage(call.kind),
                          originalError |-> ""],
               !.log = Append(@, "throw")]

\* catch (error) { throw new DocxGenerationError(message, error) }
Caught(call, cause) ==
  [call EXCEPT !.pc = "failed",
               !.error = [name |-> "DocxGenerationError",
                          message |-> FailureMessage(call.kind),
                          originalError |-> cause],
               !.log = Append(@, "throw")]

\* The entries rm2 / im2 hold beyond rm1 / im1, added to the call's history.
Registered(call, rm1, im1, rm2, im2) ==
  [call EXCEPT
     !.regRels = @ \o SubSeq(rm2.relationships, Len(rm1.relationships) + 1, Len(rm2.relationships)),
     !.regImages = @ \o SubSeq(im2.images, Len(im1.images) + 1, Len(im2.images))]

\* Calls are made one after the other: a call starts once every earlier call
\* has settled and been observed by the caller; it takes the first slot.
MayStart(c) ==
  /\ \A d \in CallIds : calls[d].pc = "idle"
  /\ \A d \in CallIds : d >= c

Stale == Len(relManager.relationships) > 0 /\ Len(imageManager.images) > 0

\* Generation begun on the clone without waiting for resolveAssets.
ResolvingUnawaited(call) ==
  [call EXCEPT !.pc = "emitHeader",
               !.deepClone = structuredClone(definition),
               !.resolved = structuredClone(definition),
               !.loaded = <<>>,
               !.log = @ \o <<"clone">>]

\* The synchronous head of resolveAssets, up to its first await.
Resolving(call) ==
  [call EXCEPT !.pc = "resolving",
               !.deepClone = structuredClone(definition),
               !.loaded = <<>>,
               !.log = @ \o <<"clone">>]

\* save(outputPath), up to its first await: resetState, ensureDocxPath, new
\* JSZip, the head of resolveAssets.
StartSave(c, outputPath) ==
  /\ MayStart(c)
  /\ relManager' = resetRelationships(relManager)
  /\ imageManager' = resetImages(imageManager)
  /\ LET e == ensureDocxPath(outputPath)
         started == [IdleCall EXCEPT !.kind = "save", !.log = <<"reset", "ensureDocxPath">>,
                                     !.stale = Stale]
     IN calls' = [calls EXCEPT ![c] =
          IF e.ok THEN Resolving([started EXCEPT !.finalPath = e.path])
          ELSE Caught(started, "Output file must use .docx extension.")]
  /\ UNCHANGED <<definition, disk, history, construction, other, element>>

\* generateDocxBuffer(), up to its first await: resetState, new JSZip, the
\* head of resolveAssets.
BeginBuffer(c) ==
  /\ relManager' = resetRelationships(relManager)
  /\ imageManager' = resetImages(imageManager)
  /\ calls' = [calls EXCEPT ![c] =
        Resolving([IdleCall EXCEPT !.kind = "buffer", !.log = <<"reset">>, !.stale = Stale])]
  /\ UNCHANGED <<definition, disk, history, construction, other, element>>

StartBuffer(c) == MayStart(c) /\ BeginBuffer(c)

\* One await fs.promises.readFile(img.path) of processItem: the bytes of the
\* next path image of the clone, or the loader's error, which ends the call.
ResolveRead(c) ==
  /\ calls[c].pc = "resolving"
  /\ Len(calls[c].loaded) < Len(pathsOfDefinition(calls[c].deepClone))
  /\ LET call == calls[c]
         path == pathsOfDefinition(call.deepClone)[Len(call.loaded) + 1]
     IN \E ok \in BOOLEAN :
          IF ok
            THEN /\ calls' = [calls EXCEPT ![c] =
                       [call EXCEPT !.loaded = Append(@, FileBytes(path)),
                                    !.log = Append(@, "readFile")]]
                 /\ definition' = definitionAfterRead(definition, Append(call.loaded, FileBytes(path)))
            ELSE /\ calls' = [calls EXCEPT ![c] =
                       Caught([call EXCEPT !.log = Append(@, "readFile")], "ENOENT")]
                 /\ definition' = definitionAfterRead(definition, call.loaded)
  /\ UNCHANGED <<relManager, imageManager, disk, history, construction, other, element>>

\* resolveAssets returns the resolved copy; generateZipContent begins.
ResolveReturn(c) ==
  /\ calls[c].pc = "resolving"
  /\ Len(calls[c].loaded) = Len(pathsOfDefinition(calls[c].deepClone))
  /\ LET call == calls[c] IN
     calls' = [calls EXCEPT ![c] =
        [call EXCEPT !.pc = "emitHeader",
                     !.resolved = resolvedDefinition(call.deepClone, call.loaded),
                     !.log = Append(@, "resolved")]]
  /\ UNCHANGED <<definition, relManager, imageManager, disk, history, construction, other, element>>

\* The header part filed and its relationship registered:
\* zip.file('word/header1.xml', headerXml); headerRelId = addHeader('header1.xml').
headerEmitted(call, g, h, rm1, im1) ==
  Registered([call EXCEPT !.pc = "emitFooter",
                          !.zip = zipFile(@, Part(HeaderPath, g.xml, <<>>, <<>>, {})),
                          !.headerRelId = h.relId,
                          !.log = @ \o <<"generateHeaderXml", "addHeader">>],
             rm1, im1, h.rm, g.ctx.im)

footerEmitted(call, g, f, rm1, im1) ==
  Registered([call EXCEPT !.pc = "emitDocument",
                          !.zip = zipFile(@, Part(FooterPath, g.xml, <<>>, <<>>, {})),
                          !.footerRelId = f.relId,
                          !.log = @ \o <<"generateFooterXml", "addFooter">>],
             rm1, im1, f.rm, g.ctx.im)

\* A part generator threw: the call ends in its catch, the registries stay as
\* the emitters left them.
emitThrew(call, g, step, rm1, im1) ==
  Caught(Registered([call EXCEPT !.log = Append(@, step)], rm1, im1, g.ctx.rm, g.ctx.im),
         g.ctx.err)

HeaderStep(c, call, g, h) ==
  IF ~call.hasHeader
    THEN /\ calls' = [calls EXCEPT ![c] = [call EXCEPT !.pc = "emitFooter"]]
         /\ UNCHANGED <<relManager, imageManager>>
  ELSE IF g.ctx.err # ""
    THEN /\ relManager' = g.ctx.rm
         /\ imageManager' = g.ctx.im
         /\ calls' = [calls EXCEPT ![c] = emitThrew(call, g, "generateHeaderXml", relManager, imageManager)]
  ELSE /\ relManager' = h.rm
       /\ imageManager' = g.ctx.im
       /\ calls' = [calls EXCEPT ![c] = headerEmitted(call, g, h, relManager, imageManager)]

HeaderGenerated(c, call, g) == HeaderStep(c, call, g, addHeader(g.ctx.rm, "header1.xml"))

\* Flags that follow the presence of the header / footer alone.
withFlagsOfPresence(call) ==
  [call EXCEPT !.hasHeader = call.resolved.header.present,
               !.hasFooter = call.resolved.footer.present]

\* const hasHeader = !!def.header?.content?.length (and hasFooter likewise).
withFlags(call) ==
  [call EXCEPT !.hasHeader = call.resolved.header.present /\ Len(call.resolved.header.content) > 0,
               !.hasFooter = call.resolved.footer.present /\ Len(call.resolved.footer.content) > 0]

\* generateZipContent, step 1: hasHeader / hasFooter, and the header part:
\* generateHeaderXml, zip.file('word/header1.xml'), addHeader('header1.xml').
EmitHeader(c) ==
  /\ calls[c].pc = "emitHeader"
  /\ HeaderGenerated(c, withFlags(calls[c]),
                     generateHeaderXml(calls[c].resolved.header, Ctx(relManager, imageManager, "")))
  /\ UNCHANGED <<definition, disk, history, construction, other, element>>

FooterStep(c, call, g, f) ==
  IF ~call.hasFooter
    THEN /\ calls' = [calls EXCEPT ![c] = [call EXCEPT !.pc = "emitDocument"]]
         /\ UNCHANGED <<relManager, imageManager>>
  ELSE IF g.ctx.err # ""
    THEN /\ relManager' = g.ctx.rm
         /\ imageManager' = g.ctx.im
         /\ calls' = [calls EXCEPT ![c] = emitThrew(call, g, "generateFooterXml", relManager, imageManager)]
  ELSE /\ relManager' = f.rm
       /\ imageManager' = g.ctx.im
       /\ calls' = [calls EXCEPT ![c] = footerEmitted(call, g, f, relManager, imageManager)]

FooterGenerated(c, call, g) == FooterStep(c, call, g, addFooter(g.ctx.rm, "footer1.xml"))

\* generateZipContent, step 1, the footer part.
EmitFooter(c) ==
  /\ calls[c].pc = "emitFooter"
  /\ FooterGenerated(c, calls[c],
                     generateFooterXml(calls[c].resolved.footer, Ctx(relManager, imageManager, "")))
  /\ UNCHANGED <<definition, disk, history, construction, other, element>>

documentEmitted(call, g, rm1, im1) ==
  Registered([call EXCEPT !.pc = "assemble", !.documentXml = g.xml,
                          !.log = Append(@, "generateDocumentXml")],
             rm1, im1, g.ctx.rm, g.ctx.im)

DocumentGenerated(c, call, g) ==
  /\ relManager' = g.ctx.rm
  /\ imageManager' = g.ctx.im
  /\ calls' = [calls EXCEPT ![c] =
       IF g.ctx.err # "" THEN emitThrew(call, g, "generateDocumentXml", relManager, imageManager)
       ELSE documentEmitted(call, g, relManager, imageManager)]

\* generateZipContent, step 2: generateDocumentXml with the two ids.
EmitDocument(c) ==
  /\ calls[c].pc = "emitDocument"
  /\ DocumentGenerated(c, calls[c],
                       generateDocumentXml(calls[c].resolved, Ctx(relManager, imageManager, ""),
                                           calls[c].headerRelId, calls[c].footerRelId))
  /\ UNCHANGED <<definition, disk, history, construction, other, element>>

\* The parts generateZipContent files in step 3, in the order of its
\* statements: content types, package relationships, the document, the media,
\* and the document relationships when there are any.
\* The document relationships filed even when there are none.
withDocumentRelsAlways(zip, rm) ==
  zipFile(zip, Part(DocumentRelsPath, NoXml, generateDocumentRelsXml(rm), <<>>, {}))

withDocumentRels(zip, rm) ==
  IF hasRelationships(rm)
    THEN zipFile(zip, Part(DocumentRelsPath, NoXml, generateDocumentRelsXml(rm), <<>>, {}))
    ELSE zip

assembledZip(zip, hasHeader, hasFooter, documentXml, rm, im) ==
  withDocumentRels(
    saveImagesToZip(
      zipFile(
        zipFile(
          zipFile(zip, Part(ContentTypesPath, NoXml, <<>>, <<>>,
                            generateContentTypesXml(hasHeader, hasFooter))),
          Part(MainRelsPath, NoXml, generateMainRelsXml, <<>>, {})),
        Part(DocumentPath, documentXml, <<>>, <<>>, {})),
      im.images, 1),
    rm)

\* generateZipContent, step 3.
Assemble(c) ==
  /\ calls[c].pc = "assemble"
  /\ LET call == calls[c] IN
     calls' = [calls EXCEPT ![c] =
        [call EXCEPT
           !.pc = "handoff",
           !.zip = assembledZip(call.zip, call.hasHeader, call.hasFooter,
                                call.documentXml, relManager, imageManager),
           !.log = @ \o <<"generateContentTypesXml", "generateMainRelsXml", "document.xml",
                          "saveImagesToZip">>
                     \o (IF hasRelationships(relManager) THEN <<"generateDocumentRelsXml">> ELSE <<>>)]]
  /\ UNCHANGED <<definition, relManager, imageManager, disk, history, construction, other, element>>

\* The options each output mode gives the packaging sink: save streams with
\* generateNodeStream({ streamFiles: true }) and names no compression (JSZip's
\* default is STORE); generateDocxBuffer asks for DEFLATE, level 9.
sinkOptions(kind) ==
  IF kind = "save" THEN [compression |-> "STORE", level |-> 0, streamFiles |-> TRUE]
  ELSE [compression |-> "DEFLATE", level |-> 9, streamFiles |-> FALSE]

\* The hand-off: the zip's parts go to the sink (generateNodeStream piped into
\* fs.createWriteStream(finalPath), or generateAsync).
HandOff(c) ==
  /\ calls[c].pc = "handoff"
  /\ LET call == calls[c] IN
     calls' = [calls EXCEPT ![c] =
        [call EXCEPT !.pc = "packaging", !.handed = TRUE, !.sunk = call.zip,
                     !.options = sinkOptions(call.kind),
                     !.log = Append(@, "handoff")]]
  /\ UNCHANGED <<definition, relManager, imageManager, disk, history, construction, other, element>>

\* The sink finishes: the write stream emits 'finish' and the file is whole,
\* or generateAsync resolves with the buffer.
SinkFinish(c) ==
  /\ calls[c].pc = "packaging"
  /\ LET call == calls[c] IN
     /\ calls' = [calls EXCEPT ![c] = [call EXCEPT !.pc = "done", !.log = Append(@, "finish")]]
     /\ disk' = IF call.kind = "save" THEN [disk EXCEPT ![call.finalPath] = "complete"] ELSE disk
  /\ UNCHANGED <<definition, relManager, imageManager, history, construction, other, element>>

\* The sink fails.  save: the write stream emits 'error', the promise rejects
\* inside the try and the catch wraps it; the file is left as the stream left
\* it (never opened, or written in part).  generateDocxBuffer: the promise of
\* generateAsync is returned, not awaited, so its rejection is the caller's as
\* it is.
SinkError(c) ==
  /\ calls[c].pc = "packaging"
  /\ LET call == calls[c] IN
     IF call.kind = "save"
       THEN /\ calls' = [calls EXCEPT ![c] = Caught(call, "EIO")]
            /\ \E left \in {disk[call.finalPath], "partial"} :
                 disk' = [disk EXCEPT ![call.finalPath] = left]
       ELSE /\ calls' = [calls EXCEPT ![c] =
                 [call EXCEPT !.pc = "failed",
                              !.error = [name |-> "Error", message |-> "EIO", originalError |-> ""],
                              !.log = Append(@, "throw")]]
            /\ UNCHANGED disk
  /\ UNCHANGED <<definition, relManager, imageManager, history, construction, other, element>>

\* The archive stream itself fails while save is piping it.  'error' is
\* listened for on the write stream only (pipe returns its destination), and
\* pipe does not forward the source's errors: the write stream never finishes
\* and never errors, so the promise save awaits is never settled; the file is
\* left as the write stream left it.
ArchiveStreamError(c) ==
  /\ calls[c].pc = "packaging"
  /\ calls[c].kind = "save"
  /\ LET call == calls[c] IN
     /\ calls' = [calls EXCEPT ![c] =
           [call EXCEPT !.pc = "hung", !.log = Append(@, "unhandledError")]]
     /\ \E left \in {disk[call.finalPath], "partial"} :
          disk' = [disk EXCEPT ![call.finalPath] = left]
  /\ UNCHANGED <<definition, relManager, imageManager, history, construction, other, element>>

\* The caller observes the settled promise (the value or the rejection); the
\* generator keeps nothing of the call but the state of its registries.
Settle(c) ==
  /\ calls[c].pc \in Terminal
  /\ calls' = [calls EXCEPT ![c] = IdleCall]
  /\ UNCHANGED <<definition, relManager, imageManager, disk, history, construction, other, element>>

Next ==
  \E c \in CallIds :
    \/ \E outputPath \in OutputPaths : StartSave(c, outputPath)
    \/ StartBuffer(c)
    \/ ResolveRead(c)
    \/ ResolveReturn(c)
    \/ EmitHeader(c)
    \/ EmitFooter(c)
    \/ EmitDocument(c)
    \/ Assemble(c)
    \/ HandOff(c)
    \/ SinkFinish(c)
    \/ SinkError(c)
    \/ ArchiveStreamError(c)
    \/ Settle(c)

Spec == Init /\ [][Next]_vars

\* Every continuation that can run does run: the event loop leaves no ready
\* callback waiting for ever, and the file system and the sink answer.
LiveDefinitions ==
  { EmptyDefinition,
    [content |-> <<ImageNode(PathSrc("logo.png"))>>, header |-> NoHF, footer |-> NoHF],
    [content |-> <<ImageNode(OtherSrc)>>, header |-> NoHF, footer |-> NoHF],
    [content |-> <<StringNode>>, header |-> HF(<<StringNode>>), footer |-> HF(<<StringNode>>)] }

InitLive ==
  /\ definition \in LiveDefinitions
  /\ relManager = NewRelationshipsManager
  /\ imageManager = NewImageManager
  /\ calls = [c \in CallIds |-> IdleCall]
  /\ disk = [p \in DiskPaths |-> "absent"]
  /\ history = NoHistory
  /\ construction = Constructed
  /\ other = NoInstance
  /\ element = NoElement

SpecLive == InitLive /\ [][Next]_vars /\ WF_vars(Next)

\* ------------------------------------------- the registries on their own

\* The two registries as any client may drive them: every public method, in
\* any order, at most MaxOps add / register calls between two resets.

Filenames == { <<"image", "1", ".", "png">>, <<"image", "2", ".", "jpg">> }
Extensions == {"png", "jpg"}

InitRegistry ==
  /\ definition = EmptyDefinition
  /\ relManager = NewRelationshipsManager
  /\ imageManager = NewImageManager
  /\ calls = [c \in CallIds |-> IdleCall]
  /\ disk = [p \in DiskPaths |-> "absent"]
  /\ history = NoHistory
  /\ construction = Constructed
  /\ other = NoInstance
  /\ element = NoElement

RelCall(r, method, arg) ==
  /\ Len(history.rel) < MaxOps
  /\ relManager' = r.rm
  /\ history' = [history EXCEPT !.rel = Append(@, [method |-> method, arg |-> arg, ret |-> r.relId])]
  /\ UNCHANGED <<definition, imageManager, calls, disk, construction, other, element>>

CallAddHyperlink(url)    == RelCall(addHyperlink(relManager, url), "addHyperlink", <<url>>)
CallAddImage(filename)   == RelCall(addImage(relManager, filename), "addImage", filename)
CallAddHeader            == RelCall(addHeader(relManager, "header1.xml"), "addHeader", <<"header1.xml">>)
CallAddFooter            == RelCall(addFooter(relManager, "footer1.xml"), "addFooter", <<"footer1.xml">>)

CallResetRelationships ==
  /\ relManager' = resetRelationships(relManager)
  /\ history' = [history EXCEPT !.rel = <<>>, !.relReset = TRUE]
  /\ UNCHANGED <<definition, imageManager, calls, disk, construction, other, element>>

ImageCall(r, extension) ==
  /\ Len(history.img) < MaxOps
  /\ imageManager' = r.im
  /\ history' = [history EXCEPT !.img = Append(@, [extension |-> extension, ret |-> r.filename])]
  /\ UNCHANGED <<definition, relManager, calls, disk, construction, other, element>>

CallRegisterImage(extension) ==
  ImageCall(registerImage(imageManager, PngBytes, extension), extension)

CallResetImages ==
  /\ imageManager' = resetImages(imageManager)
  /\ history' = [history EXCEPT !.img = <<>>, !.imgReset = TRUE]
  /\ UNCHANGED <<definition, relManager, calls, disk, construction, other, element>>

NextRegistry ==
  \/ \E url \in Urls : CallAddHyperlink(url)
  \/ \E filename \in Filenames : CallAddImage(filename)
  \/ CallAddHeader
  \/ CallAddFooter
  \/ CallResetRelationships
  \/ \E extension \in Extensions : CallRegisterImage(extension)
  \/ CallResetImages

SpecRegistry == InitRegistry /\ [][NextRegistry]_vars

\* ------------------------------------------------- resolveAssets on its own

\* resolveAssets over definitions with path images at every place it
\* visits: top level, paragraph content, table cells, header and footer.

ResolveTable ==
  Table(<<Row(<<Cell(<<ImageNode(PathSrc("photo.jpg"))>>), Cell(<<StringNode>>)>>),
          Row(<<Cell(<<LinkNode("https://a"), ImageNode(PathSrc("logo.png"))>>)>>)>>)

ResolveNodes ==
  { StringNode, LinkNode("https://a"),
    ImageNode(PathSrc("logo.png")), ImageNode(BytesSrc(GifBytes)),
    Paragraph(<<ImageNode(PathSrc("photo.jpg")), StringNode, ImageNode(PathSrc("logo.png"))>>),
    ResolveTable }

ResolveDefinitions ==
  [content : SeqsUpTo(ResolveNodes, MaxContent), header : HeaderFooters, footer : HeaderFooters]

InitResolve ==
  /\ definition \in ResolveDefinitions
  /\ relManager = NewRelationshipsManager
  /\ imageManager = NewImageManager
  /\ calls = [c \in CallIds |-> IdleCall]
  /\ disk = [p \in DiskPaths |-> "absent"]
  /\ history = NoHistory
  /\ construction = Constructed
  /\ other = NoInstance
  /\ element = NoElement

NextResolve ==
  \E c \in CallIds :
    \/ StartBuffer(c)
    \/ ResolveRead(c)
    \/ ResolveReturn(c)

SpecResolve == InitResolve /\ [][NextResolve]_vars

\* ---------------------------------------------------------- construction

\* What a caller may hand the constructor: nothing (undefined / null), an
\* object whose content is not an array, or a definition.
ConstructorArgs ==
  { [given |-> FALSE, contentIsArray |-> FALSE, def |-> EmptyDefinition],
    [given |-> TRUE, contentIsArray |-> FALSE, def |-> EmptyDefinition] }
  \cup { [given |-> TRUE, contentIsArray |-> TRUE, def |-> d] : d \in Definitions }

InvalidDefinitionError ==
  [name |-> "DocxGenerationError",
   message |-> "Invalid document definition. \"content\" must be an array.",
   originalError |-> ""]

NotConstructed == [status |-> "none", given |-> FALSE, contentIsArray |-> FALSE,
                   static |-> FALSE, error |-> NoError]

\* A check that only asks for a definition to be given.
validDefinitionGiven(arg) == arg.given

\* The constructor's check: !(!definition || !Array.isArray(definition.content))
validDefinition(arg) == arg.given /\ arg.contentIsArray

\* The outcome of new DocxGenerator(arg), reached through toBuffer or not.
constructed(arg, static) ==
  [status |-> IF validDefinition(arg) THEN "ready" ELSE "invalid",
   given |-> arg.given, contentIsArray |-> arg.contentIsArray, static |-> static,
   error |-> IF validDefinition(arg) THEN NoError ELSE InvalidDefinitionError]

InitConstruct ==
  /\ definition = EmptyDefinition
  /\ relManager = NewRelationshipsManager
  /\ imageManager = NewImageManager
  /\ calls = [c \in CallIds |-> IdleCall]
  /\ disk = [p \in DiskPaths |-> "absent"]
  /\ history = NoHistory
  /\ construction = NotConstructed
  /\ other = NoInstance
  /\ element = NoElement

\* new DocxGenerator(arg): throw on an invalid definition, before the
\* registries are made; otherwise keep the definition and make them.
Construct(arg) ==
  /\ construction.status = "none"
  /\ construction' = constructed(arg, FALSE)
  /\ definition' = IF validDefinition(arg) THEN arg.def ELSE definition
  /\ UNCHANGED <<relManager, imageManager, calls, disk, history, other, element>>

\* DocxGenerator.toBuffer(arg): the constructor, then generateDocxBuffer up
\* to its first await; the constructor's throw rejects toBuffer's promise.
ToBuffer(arg) ==
  /\ construction.status = "none"
  /\ construction' = constructed(arg, TRUE)
  /\ definition' = IF validDefinition(arg) THEN arg.def ELSE definition
  /\ calls' = IF validDefinition(arg)
                THEN [calls EXCEPT ![1] =
                        [IdleCall EXCEPT !.kind = "buffer", !.pc = "resolving",
                                         !.deepClone = structuredClone(arg.def),
                                         !.log = <<"reset", "clone">>]]
                ELSE calls
  /\ UNCHANGED <<relManager, imageManager, disk, history, other, element>>

NextConstruct ==
  \/ \E arg \in ConstructorArgs : Construct(arg)
  \/ \E arg \in ConstructorArgs : ToBuffer(arg)
  \/ /\ construction.status = "ready"
     /\ \E c \in CallIds :
          \/ StartBuffer(c)
          \/ ResolveRead(c)
          \/ ResolveReturn(c)

SpecConstruct == InitConstruct /\ [][NextConstruct]_vars

\* ---------------------------------------------------------- two instances

\* Two generator instances whose generateDocxBuffer calls interleave at their
\* awaits.  The variables definition, relManager, imageManager and calls are
\* those of the instance whose continuation runs next; other holds the
\* instance that waits.

InstanceDefinitions ==
  { [content |-> <<ImageNode(PathSrc("logo.png")),
                   Paragraph(<<LinkNode("https://a"), LinkNode("https://a")>>)>>,
     header  |-> NoHF, footer |-> NoHF],
    [content |-> <<Table(<<Row(<<Cell(<<LinkNode("https://a"),
                                        ImageNode(DataUriSrc("jpeg", JpgBytes))>>)>>)>>)>>,
     header  |-> HF(<<Paragraph(<<LinkNode("https://a"), ImageNode(PathSrc("photo.jpg"))>>)>>),
     footer  |-> NoHF] }

InitInstances ==
  /\ definition \in InstanceDefinitions
  /\ relManager = NewRelationshipsManager
  /\ imageManager = NewImageManager
  /\ calls = [c \in CallIds |-> IdleCall]
  /\ disk = [p \in DiskPaths |-> "absent"]
  /\ history = NoHistory
  /\ construction = Constructed
  /\ other \in { NewInstance(d) : d \in InstanceDefinitions }
  /\ element = NoElement

\* Registries kept at module level, the same for every instance.
focusOnShared(inst, rm, im) == [inst EXCEPT !.relManager = rm, !.imageManager = im]

\* The fields a continuation of instance inst works on: its own definition,
\* this.relManager, this.imageManager and calls, whatever registries (rm, im)
\* the instance that ran before it holds.
focusOn(inst, rm, im) == inst

switchedTo(f) ==
  /\ definition' = f.definition
  /\ relManager' = f.relManager
  /\ imageManager' = f.imageManager
  /\ calls' = f.calls

\* The event loop runs a continuation of the other instance next.
Switch ==
  /\ switchedTo(focusOn(other, relManager, imageManager))
  /\ other' = [definition |-> definition, relManager |-> relManager,
               imageManager |-> imageManager, calls |-> calls]
  /\ UNCHANGED <<disk, history, construction, element>>

NextInstances ==
  \/ Switch
  \/ \E c \in CallIds :
       \/ StartBuffer(c)
       \/ ResolveRead(c)
       \/ ResolveReturn(c)
       \/ EmitHeader(c)
       \/ EmitFooter(c)
       \/ EmitDocument(c)
       \/ Assemble(c)
       \/ HandOff(c)
       \/ SinkFinish(c)
       \/ SinkError(c)
       \/ Settle(c)

SpecInstances == InitInstances /\ [][NextInstances]_vars

\* ------------------------------------------- overlapping calls, one instance

\* Calls on one instance that do not wait for one another: a call may start
\* while earlier ones are suspended at an await.  generateZipContent holds no
\* await, so from its first statement to its last no other continuation runs;
\* Running is TRUE while a call is inside it.

OverlapDefinitions ==
  { [content |-> <<ImageNode(PathSrc("logo.png")), Paragraph(<<LinkNode("https://a")>>)>>,
     header  |-> NoHF, footer |-> NoHF],
    [content |-> <<Paragraph(<<LinkNode("https://a"), ImageNode(BytesSrc(GifBytes))>>)>>,
     header  |-> HF(<<StringNode>>), footer |-> NoHF],
    [content |-> <<StringNode>>, header |-> NoHF,
     footer  |-> HF(<<ImageNode(PathSrc("photo.jpg"))>>)] }

InitOverlap ==
  /\ definition \in OverlapDefinitions
  /\ relManager = NewRelationshipsManager
  /\ imageManager = NewImageManager
  /\ calls = [c \in CallIds |-> IdleCall]
  /\ disk = [p \in DiskPaths |-> "absent"]
  /\ history = NoHistory
  /\ construction = Constructed
  /\ other = NoInstance
  /\ element = NoElement

Running == \E d \in CallIds : calls[d].pc \in {"emitFooter", "emitDocument", "assemble"}

\* A call made whatever the earlier calls are doing; it takes the first slot
\* that is free.
StartOverlapping(c) ==
  /\ calls[c].pc = "idle"
  /\ \A d \in CallIds : d < c => calls[d].pc # "idle"
  /\ BeginBuffer(c)

NextOverlap ==
  \E c \in CallIds :
    \/ ~Running /\ StartOverlapping(c)
    \/ ~Running /\ ResolveRead(c)
    \/ ~Running /\ ResolveReturn(c)
    \/ ~Running /\ EmitHeader(c)
    \/ EmitFooter(c)
    \/ EmitDocument(c)
    \/ Assemble(c)
    \/ ~Running /\ HandOff(c)
    \/ ~Running /\ SinkFinish(c)
    \/ ~Running /\ SinkError(c)
    \/ ~Running /\ Settle(c)

SpecOverlap == InitOverlap /\ [][NextOverlap]_vars

\* ------------------------------------------------- the emitters on their own

\* The element emitters called one at a time, as the part generators call
\* them: each on an empty parent, against the registries as the calls before
\* left them.

MaxEmits == 2

\* fontSize 12 and lineSpacing 1.5; fontSize 10.5; {} ; lineSpacing 1.15
ParentStyle == Style("FF0000", TRUE, FALSE, FALSE, "justify", Num(12, 1), Num(3, 2))
OwnStyle    == Style("", FALSE, TRUE, FALSE, "", Num(21, 2), NoNum)
EmptyStyle  == Style("", FALSE, FALSE, FALSE, "", NoNum, NoNum)
LineStyle   == Style("00FF00", FALSE, FALSE, TRUE, "center", NoNum, Num(107, 100))

TextInputs ==
  { StringNode, TextNode, Styled(TextNode, OwnStyle), Styled(TextNode, EmptyStyle),
    Styled(TextNode, LineStyle) }

DefaultStyles == { NoStyle, ParentStyle, LineStyle }

LinkInputs == { Styled(LinkNode("https://a"), st) : st \in { NoStyle, ParentStyle, OwnStyle } }

\* Buffers: the four magic numbers, their prefixes cut short, other bytes,
\* fewer than four bytes, none.
ByteInputs ==
  { PngBytes, JpgBytes, GifBytes, BmpBytes, <<255, 216, 255>>, <<66, 77>>, <<137, 80, 78>>,
    <<255, 216>>, <<71, 73, 70, 57, 56>>, <<1, 2, 3, 4, 5>>, <<66>>, <<>> }

\* Widths and heights in pixels: not given, whole, and with a fraction
\* (0.5 px is 4762.5 EMU).
PixelSizes ==
  { <<NoNum, NoNum>>, <<Num(200, 1), Num(50, 1)>>, <<Num(1, 2), NoNum>>, <<NoNum, Num(3, 2)>>,
    <<Num(1, 1), Num(1, 4)>> }

ImageInputs ==
  { ImageNode(BytesSrc(b)) : b \in ByteInputs }
  \cup { ImageNode(PathSrc("logo.png")), ImageNode(OtherSrc),
         ImageNode(DataUriSrc("jpeg", JpgBytes)), ImageNode(DataUriSrc("gif", PngBytes)),
         ImageNode(Base64Src(JpgBytes)) }
  \cup { Sized(ImageNode(BytesSrc(PngBytes)), sz[1], sz[2]) : sz \in PixelSizes }
  \cup { Sized(ImageNode(DataUriSrc("jpeg", JpgBytes)), sz[1], sz[2]) : sz \in PixelSizes }

ParagraphInputs ==
  { Styled(Paragraph(<<StringNode, TextNode, Styled(TextNode, OwnStyle)>>), st) :
      st \in { NoStyle, ParentStyle, LineStyle } }
  \cup { Paragraph(<<LinkNode("https://a"), ImageNode(BytesSrc(GifBytes))>>),
         Styled(Paragraph(<<Styled(LinkNode("https://a"), LineStyle),
                            Sized(ImageNode(BytesSrc(BmpBytes)), Num(3, 2), NoNum),
                            StringNode>>), ParentStyle),
         Paragraph(<<ImageNode(BytesSrc(PngBytes)), ImageNode(PathSrc("logo.png"))>>) }

StyledCell(c, st) == [Cell(c) EXCEPT !.style = st]

TableInputs ==
  { Table(<<Row(<<StyledCell(<<StringNode, TextNode, Styled(TextNode, OwnStyle)>>, st),
                  Cell(<<LinkNode("https://a"), ImageNode(BytesSrc(JpgBytes))>>)>>)>>) :
      st \in { NoStyle, ParentStyle } }

TopLevelInputs ==
  { StringNode, TextNode, Styled(TextNode, ParentStyle), Styled(TextNode, LineStyle),
    Styled(TextNode, OwnStyle), LinkNode("https://a") }

InitElements ==
  /\ definition = EmptyDefinition
  /\ relManager = NewRelationshipsManager
  /\ imageManager = NewImageManager
  /\ calls = [c \in CallIds |-> IdleCall]
  /\ disk = [p \in DiskPaths |-> "absent"]
  /\ history = NoHistory
  /\ construction = Constructed
  /\ other = NoInstance
  /\ element = NoElement

\* One emitter call: e is what it left (the parent and the registries, with
\* the message of the Error thrown, if any).
Emitted(op, node, defaultStyle, e) ==
  /\ element.count < MaxEmits
  /\ element' = [parent |-> e.parent, err |-> e.ctx.err, op |-> op, node |-> node,
                 defaultStyle |-> defaultStyle, rmBefore |-> relManager,
                 imBefore |-> imageManager, count |-> element.count + 1]
  /\ relManager' = e.ctx.rm
  /\ imageManager' = e.ctx.im
  /\ UNCHANGED <<definition, calls, disk, history, construction, other>>

CallCreateText(input, defaultStyle) ==
  Emitted("createText", input, defaultStyle,
          Emission(createText(Root, input, defaultStyle), Ctx(relManager, imageManager, "")))

\* const relId = getHyperlinkRelId(part.url); createlink(p, part, relId)
CallCreatelink(link) ==
  Emitted("createlink", link, NoStyle,
          linkPart(Root, link, Ctx(relManager, imageManager, ""), addHyperlink(relManager, link.url)))

CallCreateImage(image) ==
  Emitted("createImage", image, NoStyle,
          createImage(Root, image, Ctx(relManager, imageManager, "")))

CallCreateParagraph(paragraph) ==
  Emitted("createParagraph", paragraph, NoStyle,
          createParagraph(Root, paragraph, Ctx(relManager, imageManager, "")))

CallCreateTable(table) ==
  Emitted("createTable", table, NoStyle,
          createTable(Root, table, Ctx(relManager, imageManager, "")))

\* One turn of the content loop of a part generator on a top-level item.
CallPartItem(item) ==
  Emitted("partItem", item, NoStyle, partItem(Root, item, Ctx(relManager, imageManager, "")))

NextElements ==
  \/ \E input \in TextInputs, defaultStyle \in DefaultStyles : CallCreateText(input, defaultStyle)
  \/ \E link \in LinkInputs : CallCreatelink(link)
  \/ \E image \in ImageInputs : CallCreateImage(image)
  \/ \E paragraph \in ParagraphInputs : CallCreateParagraph(paragraph)
  \/ \E table \in TableInputs : CallCreateTable(table)
  \/ \E item \in TopLevelInputs : CallPartItem(item)

SpecElements == InitElements /\ [][NextElements]_vars

\* ----------------------------------------------- what a package contains

HasPart(zip, path) == \E i \in 1..Len(zip) : zip[i].path = path

PartAt(zip, path) == zip[CHOOSE i \in 1..Len(zip) : zip[i].path = path]

\* The <Relationship> entries of word/_rels/document.xml.rels, none when the
\* part is absent.
RelsOf(zip) == IF HasPart(zip, DocumentRelsPath) THEN PartAt(zip, DocumentRelsPath).rels ELSE <<>>

RelsOfType(zip, type) == { i \in 1..Len(RelsOf(zip)) : RelsOf(zip)[i].Type = type }

\* The positions of the word/media/ entries.
MediaOf(zip) == { i \in 1..Len(zip) : zip[i].path[1] = "word/media/" }

PathsOf(zip) == { zip[i].path : i \in 1..Len(zip) }

HandedCalls == { c \in CallIds : calls[c].handed }

\* ------------------------------------------------------------------ claims

\* C1. When generation calls on one instance run one after another, the
\* package a call hands to the sink holds exactly the relationships and media
\* files that call registered, numbered from rId1 and image1: nothing of an
\* earlier call survives in it.
C1_OnlyThisCall ==
  \A c \in HandedCalls :
    LET call == calls[c]
        rels == RelsOf(call.sunk)
    IN /\ Len(rels) = Len(call.regRels)
       /\ \A i \in 1..Len(rels) :
            /\ rels[i].Id = <<"rId">> \o ToStr(i)
            /\ rels[i].Type = call.regRels[i].type
            /\ rels[i].Target = call.regRels[i].target
       /\ Cardinality(MediaOf(call.sunk)) = Len(call.regImages)
       /\ \A i \in 1..Len(call.regImages) :
            /\ SubSeq(call.regImages[i].filename, 1, 2) = <<"image">> \o ToStr(i)
            /\ HasPart(call.sunk, MediaPath(call.regImages[i].filename))

\* A call that began with an earlier call's entries still in both registries
\* has handed over a package with relationships and media of its own.
C1_Witness ==
  \E c \in HandedCalls :
    /\ calls[c].stale
    /\ Len(calls[c].regRels) >= 2
    /\ Len(calls[c].regImages) >= 1

\* C2. After any sequence of add* / reset calls on the relationship manager,
\* the rendered document relationships hold one entry per add call made since
\* the last reset, in the order the calls were made, and the k-th entry has
\* id rId<k>, the id that call returned, with the type and target it was given.
C2_RelsInInsertionOrder ==
  /\ Len(generateDocumentRelsXml(relManager)) = Len(history.rel)
  /\ \A k \in 1..Len(history.rel) :
       LET entry == generateDocumentRelsXml(relManager)[k]
           op    == history.rel[k]
       IN /\ entry.Id = <<"rId">> \o ToStr(k)
          /\ entry.Id = op.ret
          /\ entry.Type = CASE op.method = "addHyperlink" -> TypeHyperlink
                            [] op.method = "addImage"     -> TypeImage
                            [] op.method = "addHeader"    -> TypeHeader
                            [] op.method = "addFooter"    -> TypeFooter
          /\ entry.Target = IF op.method = "addImage" THEN <<"media/">> \o op.arg ELSE op.arg

\* The manager was reset after use and then given adds of different kinds.
C2_Witness ==
  /\ history.relReset
  /\ Len(history.rel) >= 3
  /\ history.rel[1].method = "addImage"
  /\ history.rel[2].method = "addHyperlink"
  /\ history.rel[3].method = "addHeader"
  /\ Len(generateDocumentRelsXml(relManager)) = 3

\* ------------------------------------------------ link nodes of a definition

RECURSIVE Sum(_)
Sum(s) == IF s = <<>> THEN 0 ELSE Head(s) + Sum(Tail(s))

LinksInline(content) == Cardinality({ i \in 1..Len(content) : content[i].type = "link" })

LinksOfNode(n) ==
  (IF n.type = "link" THEN 1 ELSE 0)
  + LinksInline(n.content)
  + Sum([i \in 1..Len(n.rows) |->
           Sum([j \in 1..Len(n.rows[i].cells) |-> LinksInline(n.rows[i].cells[j].content)])])

LinksOf(content) == Sum([i \in 1..Len(content) |-> LinksOfNode(content[i])])

LinkNodes(def) == LinksOf(def.content) + LinksOf(def.header.content) + LinksOf(def.footer.content)

TopLevelLinks(def) ==
  Cardinality({ i \in 1..Len(def.content) : def.content[i].type = "link" })

\* C3. One generation run registers exactly as many hyperlink relationships
\* as the definition has Link nodes, wherever they stand (top level,
\* paragraph, table cell, header, footer), each under an id of its own even
\* when two links share a URL.
C3_OneRelationshipPerLink ==
  \A c \in HandedCalls :
    LET rels == RelsOf(calls[c].sunk)
        links == RelsOfType(calls[c].sunk, TypeHyperlink)
    IN /\ Cardinality(links) = LinkNodes(definition)
       /\ \A i, j \in links : i # j => rels[i].Id # rels[j].Id

\* C4. The k-th registerImage call since the last reset returns
\* image<k>.<extension>, and the image counter moves with registerImage
\* alone, whatever the relationship manager has been asked in between.
C4_ImageFilenames ==
  /\ imageManager.nextImageId = Len(history.img) + 1
  /\ Len(imageManager.images) = Len(history.img)
  /\ \A k \in 1..Len(history.img) :
       /\ history.img[k].ret = <<"image">> \o ToStr(k) \o <<".", history.img[k].extension>>
       /\ imageManager.images[k].filename = history.img[k].ret

\* Images registered after a reset while the relationship counter stands
\* elsewhere.
C4_Witness ==
  /\ history.imgReset
  /\ Len(history.img) >= 2
  /\ history.img[1].extension # history.img[2].extension
  /\ relManager.nextRelId > imageManager.nextImageId

\* ------------------------------------------------ reading a handed package

ImageRels(zip) == RelsOfType(zip, TypeImage)

\* The media entry an image relationship's target names, relative to word/.
MediaEntryOf(rel) == <<"word/media/">> \o Tail(rel.Target)

Overrides(zip) == PartAt(zip, ContentTypesPath).overrides

BodyOf(documentXml) == documentXml.kids[1]

SectPrOf(documentXml) == BodyOf(documentXml).kids[Len(BodyOf(documentXml).kids)]

\* The r:id values of the section's references of one tag.
RefIds(documentXml, tag) ==
  { SectPrOf(documentXml).kids[i].rid :
      i \in { j \in 1..Len(SectPrOf(documentXml).kids) : SectPrOf(documentXml).kids[j].tag = tag } }

\* The ids of the relationships of one type and target.
RelIds(rels, type, target) ==
  { rels[i].Id : i \in { j \in 1..Len(rels) : rels[j].Type = type /\ rels[j].Target = target } }

\* One part's wiring: the part, its content-types override, its relationship
\* and the section's reference to it stand or fall together, and the
\* reference carries the relationship's id.
Wired(zip, path, override, type, target, tag) ==
  LET ids == RelIds(RelsOf(zip), type, target)
      refs == RefIds(PartAt(zip, DocumentPath).xml, tag)
  IN /\ HasPart(zip, path) <=> override \in Overrides(zip)
     /\ HasPart(zip, path) <=> ids # {}
     /\ HasPart(zip, path) <=> refs # {}
     /\ Cardinality(ids) <= 1
     /\ refs = ids

\* C5. In a handed package every image relationship targets media/<f> for a
\* file f that is present as word/media/<f>, and every word/media/ entry is
\* the target of exactly one image relationship.
C5_MediaMatchesImageRels ==
  \A c \in HandedCalls :
    LET zip == calls[c].sunk
        rels == RelsOf(zip)
    IN /\ \A i \in ImageRels(zip) :
            /\ Head(rels[i].Target) = "media/"
            /\ HasPart(zip, MediaEntryOf(rels[i]))
       /\ \A m \in MediaOf(zip) :
            Cardinality({ i \in ImageRels(zip) : MediaEntryOf(rels[i]) = zip[m].path }) = 1

\* A handed package with several media files, among other relationships.
C5_Witness ==
  \E c \in HandedCalls :
    /\ Cardinality(MediaOf(calls[c].sunk)) >= 2
    /\ RelsOfType(calls[c].sunk, TypeHyperlink) # {}

\* C6. In a handed package word/header1.xml is present exactly when the
\* content types carry the header override, exactly when the document
\* relationships hold a header relationship targeting header1.xml, exactly
\* when the section properties hold a header reference, whose id is that
\* relationship's; and the same for the footer.
C6_HeaderFooterWiring ==
  \A c \in HandedCalls :
    /\ Wired(calls[c].sunk, HeaderPath, "/word/header1.xml", TypeHeader, <<"header1.xml">>,
             "w:headerReference")
    /\ Wired(calls[c].sunk, FooterPath, "/word/footer1.xml", TypeFooter, <<"footer1.xml">>,
             "w:footerReference")

\* A handed package with a header and no footer, the header's relationship
\* coming after those of the header's own content.
C6_Witness ==
  \E c \in HandedCalls :
    /\ HasPart(calls[c].sunk, HeaderPath)
    /\ ~HasPart(calls[c].sunk, FooterPath)
    /\ RelIds(RelsOf(calls[c].sunk), TypeHeader, <<"header1.xml">>) = {<<"rId", "3">>}

\* ----------------------------------------------------- the steps of a call

IndexOf(log, step) == CHOOSE i \in 1..Len(log) : log[i] = step

Logged(log, step) == \E i \in 1..Len(log) : log[i] = step

DocumentDone == { c \in CallIds : calls[c].pc \in {"assemble", "handoff", "packaging", "done"} }

\* C7. The header and footer parts are filed and their relationship ids
\* registered before the main document part is generated, and the main
\* document's section properties embed exactly those ids.
C7_HeaderFooterBeforeDocument ==
  /\ \A c \in CallIds :
       LET call == calls[c] IN
       Logged(call.log, "generateDocumentXml") =>
         /\ call.hasHeader =>
              /\ HasPart(call.zip, HeaderPath)
              /\ Logged(call.log, "addHeader")
              /\ IndexOf(call.log, "addHeader") < IndexOf(call.log, "generateDocumentXml")
              /\ RelIds(generateDocumentRelsXml([relationships |-> call.regRels]),
                        TypeHeader, <<"header1.xml">>) = {call.headerRelId}
         /\ call.hasFooter =>
              /\ HasPart(call.zip, FooterPath)
              /\ Logged(call.log, "addFooter")
              /\ IndexOf(call.log, "addFooter") < IndexOf(call.log, "generateDocumentXml")
              /\ RelIds(generateDocumentRelsXml([relationships |-> call.regRels]),
                        TypeFooter, <<"footer1.xml">>) = {call.footerRelId}
  /\ \A c \in DocumentDone :
       /\ RefIds(calls[c].documentXml, "w:headerReference")
            = (IF calls[c].hasHeader THEN {calls[c].headerRelId} ELSE {})
       /\ RefIds(calls[c].documentXml, "w:footerReference")
            = (IF calls[c].hasFooter THEN {calls[c].footerRelId} ELSE {})

\* The main document has been generated for a definition with a header and a
\* footer, and has registered relationships of its own after theirs.
C7_Witness ==
  \E c \in DocumentDone :
    /\ calls[c].pc = "assemble"
    /\ calls[c].hasHeader /\ calls[c].hasFooter
    /\ calls[c].headerRelId # calls[c].footerRelId
    /\ Len(calls[c].regRels) > 6

\* C8. The parts handed to the sink are exactly [Content_Types].xml,
\* _rels/.rels and word/document.xml, word/header1.xml only if a header was
\* supplied (and has content), word/footer1.xml likewise,
\* word/_rels/document.xml.rels exactly when the run registered a
\* relationship, one word/media/ entry per registered image, and nothing else.
C8_ExactParts ==
  \A c \in HandedCalls :
    LET call == calls[c]
        paths == PathsOf(call.sunk)
        media == { MediaPath(call.regImages[i].filename) : i \in 1..Len(call.regImages) }
    IN /\ Len(call.sunk) = Cardinality(paths)
       /\ {ContentTypesPath, MainRelsPath, DocumentPath} \subseteq paths
       /\ HeaderPath \in paths
            <=> definition.header.present /\ definition.header.content # <<>>
       /\ FooterPath \in paths
            <=> definition.footer.present /\ definition.footer.content # <<>>
       /\ DocumentRelsPath \in paths <=> Len(call.regRels) >= 1
       /\ Cardinality(media) = Len(call.regImages)
       /\ paths \ {ContentTypesPath, MainRelsPath, DocumentPath, HeaderPath, FooterPath,
                   DocumentRelsPath} = media

\* The smallest package (the three fixed parts alone) has been handed over.
C8_Witness ==
  \E c \in HandedCalls :
    /\ PathsOf(calls[c].sunk) = {ContentTypesPath, MainRelsPath, DocumentPath}
    /\ Len(definition.content) = MaxContent

\* The step of the fixed order an entry of a call's log belongs to: reset (1),
\* resolve (2), header / footer (3), main document (4), content types /
\* package relationships / document relationships / media (5), hand-off (6).
StepOf(entry) ==
  CASE entry \in {"reset", "ensureDocxPath"} -> 1
    [] entry \in {"clone", "readFile", "resolved"} -> 2
    [] entry \in {"generateHeaderXml", "addHeader", "generateFooterXml", "addFooter"} -> 3
    [] entry = "generateDocumentXml" -> 4
    [] entry \in {"generateContentTypesXml", "generateMainRelsXml", "document.xml",
                  "saveImagesToZip", "generateDocumentRelsXml"} -> 5
    [] entry = "handoff" -> 6
    [] entry \in {"finish", "throw", "unhandledError"} -> 7

StepsOf(log) == { StepOf(log[i]) : i \in 1..Len(log) }

\* C9. Within one call the steps occur in the fixed order reset, resolve,
\* header / footer parts, main document part, content types / package
\* relationships / document relationships / media, hand-off; and no part
\* generator runs and no registry entry is created before every image load
\* has completed.
C9_FixedStepOrder ==
  \A c \in CallIds :
    LET call == calls[c] IN
    /\ call.log # <<>> => call.log[1] = "reset"
    /\ \A i, j \in 1..Len(call.log) : i < j => StepOf(call.log[i]) <= StepOf(call.log[j])
    /\ call.handed => {1, 2, 4, 5, 6} \subseteq StepsOf(call.log)
    /\ StepsOf(call.log) \cap {3, 4, 5, 6} # {} =>
         /\ Logged(call.log, "resolved")
         /\ Len(call.loaded) = Len(pathsOfDefinition(call.deepClone))
    /\ ~Logged(call.log, "resolved") /\ call.pc # "idle" =>
         /\ relManager = NewRelationshipsManager
         /\ imageManager = NewImageManager
         /\ call.zip = <<>>
         /\ call.regRels = <<>> /\ call.regImages = <<>>

\* A call that loaded several images, emitted a header and ran to the end.
C9_Witness ==
  \E c \in CallIds :
    /\ calls[c].pc = "done"
    /\ Len(calls[c].loaded) >= 2
    /\ StepsOf(calls[c].log) = 1..7

\* C10. Generation never changes the definition object given to the
\* constructor: every path-based image node in it keeps its path, also when
\* the loader fails after some images were loaded.
C10_DefinitionUntouched == [][definition' = definition]_vars

\* The loader failed on a later image after loading an earlier one, and the
\* definition still has its path images.
C10_Witness ==
  \E c \in CallIds :
    /\ calls[c].pc = "failed"
    /\ calls[c].error.originalError = "ENOENT"
    /\ Len(calls[c].loaded) >= 1
    /\ Len(pathsOfDefinition(definition)) >= 2

\* ------------------------------------------- what resolveAssets must return

\* A node with a path image source replaced by the bytes of that file.
ExpectedInline(n) ==
  IF n.type = "image" /\ n.image.kind = "path"
    THEN [n EXCEPT !.image = BytesSrc(FileBytes(n.image.path))]
    ELSE n

ExpectedInlines(content) == [k \in 1..Len(content) |-> ExpectedInline(content[k])]

ExpectedNode(n) ==
  [ExpectedInline(n) EXCEPT
     !.content = ExpectedInlines(n.content),
     !.rows = [i \in 1..Len(n.rows) |->
                 [cells |-> [j \in 1..Len(n.rows[i].cells) |->
                               [n.rows[i].cells[j] EXCEPT
                                  !.content = ExpectedInlines(n.rows[i].cells[j].content)]]]]]

ExpectedContent(content) == [i \in 1..Len(content) |-> ExpectedNode(content[i])]

Expected(def) ==
  [content |-> ExpectedContent(def.content),
   header  |-> [present |-> def.header.present, content |-> ExpectedContent(def.header.content)],
   footer  |-> [present |-> def.footer.present, content |-> ExpectedContent(def.footer.content)]]

LoaderFailed ==
  { c \in CallIds :
      /\ Len(calls[c].log) >= 2
      /\ calls[c].log[Len(calls[c].log)] = "throw"
      /\ calls[c].log[Len(calls[c].log) - 1] = "readFile" }

\* C12. If the loader fails for a path image during resolution the call
\* aborts: no part generator runs, no relationship or image is registered,
\* nothing is handed to the sink, and the call fails with the loader's error
\* attached as cause.
C12_LoaderFailureAborts ==
  \A c \in LoaderFailed :
    /\ calls[c].pc = "failed"
    /\ calls[c].error.name = "DocxGenerationError"
    /\ calls[c].error.message = FailureMessage(calls[c].kind)
    /\ calls[c].error.originalError = "ENOENT"
    /\ StepsOf(calls[c].log) \cap {3, 4, 5, 6} = {}
    /\ calls[c].regRels = <<>> /\ calls[c].regImages = <<>>
    /\ relManager = NewRelationshipsManager /\ imageManager = NewImageManager
    /\ calls[c].zip = <<>> /\ calls[c].sunk = <<>> /\ ~calls[c].handed

\* A save whose second read failed, on an instance whose registries held an
\* earlier call's entries when it began.
C12_Witness ==
  \E c \in LoaderFailed :
    /\ calls[c].kind = "save"
    /\ calls[c].stale
    /\ Len(calls[c].loaded) = 1

\* The calls that have ended in failure.
FailedCalls == { c \in CallIds : calls[c].pc = "failed" }

\* C13. Every failure of save or generateDocxBuffer (invalid output target,
\* asset resolution failure, unsupported image input, packaging failure of
\* the sink) reaches the caller as a DocxGenerationError with a message and
\* the underlying error as originalError; none reaches it unwrapped.
C13_AllFailuresWrapped ==
  \A c \in FailedCalls :
    /\ calls[c].error.name = "DocxGenerationError"
    /\ calls[c].error.message = FailureMessage(calls[c].kind)
    /\ calls[c].error.originalError # ""

\* C14. When a call fails at any step no partial artifact is exposed: no file
\* is left at the output path by a failed save; an artifact exists only when
\* the full archive was produced.
C14_NoPartialArtifact ==
  \A p \in DiskPaths : disk[p] \in {"absent", "complete"}

\* C15. Every save and generateDocxBuffer call eventually reaches a terminal
\* state, success or failure rethrown to the caller, whatever the sink does:
\* finish, a write-side error, or an error of the archive stream itself.
C15_CallsTerminate ==
  \A c \in CallIds :
    (calls[c].pc \notin ({"idle"} \cup Terminal)) ~> (calls[c].pc \in Terminal)

\* C19. In both output modes the sink is invoked with DEFLATE compression at
\* the maximum level.
C19_MaximumDeflate ==
  \A c \in HandedCalls :
    /\ calls[c].options.compression = "DEFLATE"
    /\ calls[c].options.level = 9

\* A save rejected by ensureDocxPath: it has done nothing but reset the
\* registries and throw.
RejectedAtStart(c) ==
  /\ calls[c].pc = "failed"
  /\ calls[c].kind = "save"
  /\ calls[c].log = <<"reset", "ensureDocxPath", "throw">>
  /\ calls[c].error.name = "DocxGenerationError"
  /\ calls[c].loaded = <<>>
  /\ calls[c].zip = <<>> /\ calls[c].sunk = <<>> /\ ~calls[c].handed
  /\ calls[c].regRels = <<>> /\ calls[c].regImages = <<>>
  /\ relManager = NewRelationshipsManager /\ imageManager = NewImageManager

\* C16. save with an output path whose explicit extension is not .docx fails
\* before any generation work begins: the loader is never called, no part is
\* emitted, no relationship or image is registered and no file is written.
C16_BadExtensionRejectedFirst ==
  [][\A c \in CallIds, outputPath \in OutputPaths :
       StartSave(c, outputPath) /\ outputPath.ext \notin {"", ".docx"}
         => RejectedAtStart(c)' /\ disk' = disk]_vars

\* A save to report.zip was rejected for a definition with images to load, on
\* an instance whose registries held an earlier call's entries.
C16_Witness ==
  \E c \in CallIds :
    /\ RejectedAtStart(c)
    /\ calls[c].stale
    /\ pathsOfDefinition(definition) # <<>>
    /\ \A p \in DiskPaths : p.ext # ".docx" => disk[p] = "absent"

\* C17. save with an output path without extension writes the archive to
\* that path with .docx appended, save with a path ending in .docx writes to
\* exactly that path, and no file under another name is ever written.
C17_OutputPath ==
  [][/\ \A c \in CallIds, outputPath \in OutputPaths :
          StartSave(c, outputPath) /\ outputPath.ext \in {"", ".docx"}
            => /\ calls'[c].pc = "resolving"
               /\ calls'[c].finalPath = [stem |-> outputPath.stem, ext |-> ".docx"]
     /\ \A c \in CallIds :
          calls[c].kind = "save" /\ calls[c].pc = "packaging" /\ calls'[c].pc = "done"
            => disk'[calls[c].finalPath] = "complete"
     /\ \A p \in DiskPaths :
          disk'[p] # disk[p]
            => \E c \in CallIds : /\ calls[c].kind = "save"
                                  /\ calls[c].pc = "packaging"
                                  /\ calls[c].finalPath = p]_vars

\* A save has finished: report.docx is whole and neither report nor
\* report.zip exists.
C17_Witness ==
  \E c \in CallIds :
    /\ calls[c].kind = "save"
    /\ calls[c].pc = "done"
    /\ disk[[stem |-> "report", ext |-> ".docx"]] = "complete"
    /\ disk[[stem |-> "report", ext |-> ""]] = "absent"
    /\ disk[[stem |-> "report", ext |-> ".zip"]] = "absent"

\* C18. Constructing a generator from a missing definition, or from one
\* whose content is not a sequence, fails at once with the invalid-definition
\* error, and no I/O (loader call, sink call, file write) and no registry
\* operation occurs; the static toBuffer fails the same way.
C18_InvalidDefinitionRejected ==
  construction.status # "none" =>
    IF construction.given /\ construction.contentIsArray
      THEN construction.status = "ready"
      ELSE /\ construction.status = "invalid"
           /\ construction.error = InvalidDefinitionError
           /\ \A c \in CallIds : calls[c] = IdleCall
           /\ \A p \in DiskPaths : disk[p] = "absent"
           /\ relManager = NewRelationshipsManager
           /\ imageManager = NewImageManager
           /\ history = NoHistory

\* toBuffer was given an object whose content is not an array, and was
\* rejected.
C18_Witness ==
  /\ construction.status = "invalid"
  /\ construction.static
  /\ construction.given
  /\ ~construction.contentIsArray

\* ------------------------------------- the package of a call that runs alone

\* What one call on a fresh instance hands over for a definition, with no
\* other call anywhere: the resolved copy, then the header, the footer, the
\* document and the remaining parts, each on the registries the step before
\* left.
AloneStart == [rm |-> NewRelationshipsManager, im |-> NewImageManager, zip |-> <<>>,
               headerRelId |-> Undefined, footerRelId |-> Undefined]

HasContent(hf) == hf.present /\ Len(hf.content) > 0

AloneWithHeader(a, g, h) ==
  [a EXCEPT !.rm = h.rm, !.im = g.ctx.im, !.headerRelId = h.relId,
            !.zip = zipFile(@, Part(HeaderPath, g.xml, <<>>, <<>>, {}))]

AloneHeaderOf(a, g) == AloneWithHeader(a, g, addHeader(g.ctx.rm, "header1.xml"))

AloneHeader(r, a) ==
  IF HasContent(r.header)
    THEN AloneHeaderOf(a, generateHeaderXml(r.header, Ctx(a.rm, a.im, "")))
    ELSE a

AloneWithFooter(a, g, f) ==
  [a EXCEPT !.rm = f.rm, !.im = g.ctx.im, !.footerRelId = f.relId,
            !.zip = zipFile(@, Part(FooterPath, g.xml, <<>>, <<>>, {}))]

AloneFooterOf(a, g) == AloneWithFooter(a, g, addFooter(g.ctx.rm, "footer1.xml"))

AloneFooter(r, a) ==
  IF HasContent(r.footer)
    THEN AloneFooterOf(a, generateFooterXml(r.footer, Ctx(a.rm, a.im, "")))
    ELSE a

AloneAssembled(r, a, g) ==
  assembledZip(a.zip, HasContent(r.header), HasContent(r.footer), g.xml, g.ctx.rm, g.ctx.im)

AloneDocument(r, a) ==
  AloneAssembled(r, a, generateDocumentXml(r, Ctx(a.rm, a.im, ""), a.headerRelId, a.footerRelId))

AloneResolved(r) == AloneDocument(r, AloneFooter(r, AloneHeader(r, AloneStart)))

AlonePackage(def) == AloneResolved(Expected(def))

\* C20. Calls on distinct generator instances are independent under every
\* interleaving: the parts each call hands to its sink are those it would
\* hand over had it run alone, since the instances share no registry and no
\* counter.
C20_InstancesIndependent ==
  /\ \A c \in HandedCalls : calls[c].sunk = AlonePackage(definition)
  /\ \A c \in CallIds :
       other.calls[c].handed => other.calls[c].sunk = AlonePackage(other.definition)

\* Both instances have handed over a package, each after a call of the other
\* had filled that other's registries, for different definitions.
C20_Witness ==
  /\ definition # other.definition
  /\ \E c \in HandedCalls : calls[c].pc = "packaging" /\ Len(calls[c].regRels) >= 2
  /\ \E c \in CallIds : other.calls[c].pc = "packaging" /\ Len(other.calls[c].regRels) >= 2

\* ------------------------------------------------- calls that overlap

\* The ids generateDocumentRelsXml wrote are rId1, rId2, ... in order.
NumberedFromOne(rels) == \A i \in 1..Len(rels) : rels[i].Id = <<"rId">> \o ToStr(i)

\* The last n entries of a sequence.
Last(s, n) == SubSeq(s, Len(s) - n + 1, Len(s))

\* The records and the media of a package that the call itself did not
\* register.
ForeignRels(call) == Len(RelsOf(call.sunk)) - Len(call.regRels)
IsMedia(part) == part.path[1] = "word/media/"
MediaParts(zip) == SelectSeq(zip, IsMedia)
ForeignMedia(call) == Len(MediaParts(call.sunk)) - Len(call.regImages)

\* C21. One instance is not safe for overlapping calls: a call's package
\* holds every relationship record and every media file the instance's
\* registries hold when generateZipContent runs, whichever call registered
\* them; the call's own come last and are numbered after the others, so that
\* with another call's entries before them they do not restart at rId1 /
\* image1.  (The witness is the interleaving in which that happens.)
C21_PackageHoldsWholeRegistry ==
  \A c \in HandedCalls :
    LET call == calls[c] IN
    /\ ForeignRels(call) >= 0
    /\ ForeignMedia(call) >= 0
    /\ NumberedFromOne(RelsOf(call.sunk))
    /\ [i \in 1..Len(call.regRels) |-> Last(RelsOf(call.sunk), Len(call.regRels))[i].Id]
         = [i \in 1..Len(call.regRels) |-> call.regRels[i].id]
    /\ [i \in 1..Len(call.regImages) |-> Last(MediaParts(call.sunk), Len(call.regImages))[i].path]
         = [i \in 1..Len(call.regImages) |-> MediaPath(call.regImages[i].filename)]

\* Two calls overlapped, the second started while the first awaited its
\* assets: the package of one holds the records and the media the other
\* registered, before its own, and its own first ids are not rId1 and image1.
C21_Witness ==
  \E c, d \in CallIds :
    /\ c # d
    /\ calls[c].handed /\ calls[d].handed
    /\ Len(calls[d].regRels) > 0 /\ Len(calls[d].regImages) > 0
    /\ ForeignRels(calls[c]) = Len(calls[d].regRels)
    /\ ForeignMedia(calls[c]) = Len(calls[d].regImages)
    /\ SubSeq(RelsOf(calls[c].sunk), 1, Len(calls[d].regRels)) = RelsOf(calls[d].sunk)
    /\ calls[c].regRels[1].id # <<"rId", "1">>
    /\ calls[c].regImages[1].filename[2] # "1"

\* ------------------------------------------------------ one emitter call

\* The emitter call just made, if it was op.
Called(op) == element.op = op

\* The file registerImage named in the call just made, and its extension.
RegisteredFile == imageManager.images[Len(imageManager.images)].filename
RegisteredExtension == RegisteredFile[Len(RegisteredFile)]

BeginsWith(b, magic) == Len(b) >= Len(magic) /\ \A i \in 1..Len(magic) : b[i] = magic[i]

\* C22. An image given as raw bytes is registered with the extension of its
\* magic number: png for 89 50 4E 47, jpg for FF D8 FF, gif for 47 49 46 38,
\* bmp for 42 4D, and png for any other bytes, fewer than four included.
C22_ExtensionFromMagicNumber ==
  (Called("createImage") /\ element.node.image.kind = "bytes") =>
    LET b == element.node.image.data IN
    /\ Len(imageManager.images) = Len(element.imBefore.images) + 1
    /\ RegisteredExtension =
         (IF BeginsWith(b, <<137, 80, 78, 71>>) THEN "png"
          ELSE IF BeginsWith(b, <<255, 216, 255>>) THEN "jpg"
          ELSE IF BeginsWith(b, <<71, 73, 70, 56>>) THEN "gif"
          ELSE IF BeginsWith(b, <<66, 77>>) THEN "bmp"
          ELSE "png")

\* Two bytes, FF D8, are not a JPEG's three: the second image of the run is
\* registered as image2.png.
C22_Witness ==
  /\ Called("createImage")
  /\ element.node.image = BytesSrc(<<255, 216>>)
  /\ RegisteredFile = <<"image", "2", ".", "png">>

\* The element the call just made appended to the parent.
Appended == element.parent.kids[Len(element.parent.kids)]

IsRun(el) == el.tag = "w:r"
IsText(part) == part.type \in {"string", "text"}

\* The runs directly under a paragraph element, and the text children of a
\* content sequence, each in order.
RunsOf(p) == SelectSeq(p.kids, IsRun)
TextsOf(content) == SelectSeq(content, IsText)

\* The run a styled text carrying style st (and nothing to inherit) is
\* emitted as.
RunWith(st) == createText(Root, Styled(TextNode, st), NoStyle).kids[1]

\* The one style a text child is emitted with: the parent's for a plain
\* string and for a styled text without a style, the child's own otherwise.
InheritedStyle(child, parentStyle) ==
  IF child.type = "string" THEN parentStyle
  ELSE IF child.style.present THEN child.style
  ELSE parentStyle

InheritedRuns(content, parentStyle) ==
  [i \in 1..Len(TextsOf(content)) |-> RunWith(InheritedStyle(TextsOf(content)[i], parentStyle))]

\* The w:p of cell j of row i of an emitted table.
CellParagraph(tbl, i, j) == tbl.kids[1 + i].kids[j].kids[2]

\* C23. Style inheritance is wholesale substitution: a plain string and a
\* styled text without a style are emitted with the style of the paragraph or
\* table cell that holds them, a styled text with a style of its own with
\* that style alone, no field of the parent's style added to it.
C23_StyleInheritedWhole ==
  /\ Called("createText") =>
       Appended = RunWith(InheritedStyle(element.node, element.defaultStyle))
  /\ (Called("createParagraph") /\ element.err = "") =>
       RunsOf(Appended) = InheritedRuns(element.node.content, element.node.style)
  /\ (Called("createTable") /\ element.err = "") =>
       \A i \in 1..Len(element.node.rows) :
         \A j \in 1..Len(element.node.rows[i].cells) :
           RunsOf(CellParagraph(Appended, i, j))
             = InheritedRuns(element.node.rows[i].cells[j].content,
                             element.node.rows[i].cells[j].style)

\* A paragraph with color, bold and font size 12 holding a plain string, a
\* styled text without a style and a styled text that is italic at 10.5: the
\* first two runs carry the paragraph's style, the third its own, and none of
\* the paragraph's color or bold.
C23_Witness ==
  /\ Called("createParagraph")
  /\ element.node.style = ParentStyle
  /\ element.node.content = <<StringNode, TextNode, Styled(TextNode, OwnStyle)>>
  /\ RunsOf(Appended) = <<RunWith(ParentStyle), RunWith(ParentStyle), RunWith(OwnStyle)>>
  /\ RunWith(OwnStyle) # RunWith(textStyleMerged(Styled(TextNode, OwnStyle), ParentStyle))
  /\ \A k \in 1..Len(RunsOf(Appended)[3].kids[1].kids) :
       RunsOf(Appended)[3].kids[1].kids[k].tag \notin {"w:color", "w:b"}

\* C24. An image node that reaches createImage with a { path } source, or
\* with a source toBuffer cannot interpret, makes it throw before
\* registerImage and addImage are called: both registries are as they were
\* before the call, and nothing was appended to the parent.
C24_ImageFailsFast ==
  (Called("createImage") /\ element.node.image.kind \in {"path", "other"}) =>
    /\ element.err =
         (IF element.node.image.kind = "path"
            THEN "Image with { path } must be resolved to Buffer before createImage()"
            ELSE "Unsupported image input")
    /\ imageManager = element.imBefore
    /\ relManager = element.rmBefore
    /\ element.parent = Root

\* The call failed on a { path } source after an earlier call had registered
\* an image and its relationship; the registries still hold just those.
C24_Witness ==
  /\ Called("createImage")
  /\ element.node.image.kind = "path"
  /\ element.err # ""
  /\ Len(imageManager.images) = 1 /\ imageManager.nextImageId = 2
  /\ Len(relManager.relationships) = 1 /\ relManager.nextRelId = 2
  /\ imageManager = element.imBefore /\ relManager = element.rmBefore

RECURSIVE Holds(_, _)
\* Some element below el (not el itself) has the tag.
Holds(el, tag) ==
  \E k \in 1..Len(el.kids) : el.kids[k].tag = tag \/ Holds(el.kids[k], tag)

\* C25. Emitting one Paragraph node appends exactly one paragraph element to
\* the parent, whatever its children are: every child fragment is a run, a
\* hyperlink or a drawing run directly inside that paragraph (after its
\* properties), and no paragraph element lies inside another.
C25_OneParagraphNoneNested ==
  (Called("createParagraph") /\ element.err = "") =>
    /\ Len(element.parent.kids) = 1
    /\ Appended.tag = "w:p"
    /\ \A k \in 1..Len(Appended.kids) : Appended.kids[k].tag \in {"w:pPr", "w:r", "w:hyperlink"}
    /\ ~Holds(Appended, "w:p")

RECURSIVE ValsOf(_, _)
\* The attribute values of the elements below el that have the tag.
ValsOf(el, tag) ==
  UNION { (IF el.kids[k].tag = tag THEN {el.kids[k].val} ELSE {}) \cup ValsOf(el.kids[k], tag) :
            k \in 1..Len(el.kids) }

DigitValue(ch) ==
  CASE ch = "0" -> 0 [] ch = "1" -> 1 [] ch = "2" -> 2 [] ch = "3" -> 3 [] ch = "4" -> 4
    [] ch = "5" -> 5 [] ch = "6" -> 6 [] ch = "7" -> 7 [] ch = "8" -> 8 [] ch = "9" -> 9

RECURSIVE Parsed(_)
\* The whole number a decimal string denotes.
Parsed(str) ==
  IF str = <<>> THEN 0 ELSE 10 * Parsed(SubSeq(str, 1, Len(str) - 1)) + DigitValue(str[Len(str)])

\* k is the integer nearest to q * factor (within one half of it).
Nearest(k, q, factor) ==
  LET diff == k * q.d - q.n * factor IN
  2 * (IF diff < 0 THEN 0 - diff ELSE diff) <= q.d

\* The pixels the claim takes for a dimension: the given ones, 100 when none.
PixelsOr100(q) == IF q = NoNum THEN Num(100, 1) ELSE q

IsPPr(el) == el.tag = "w:pPr"

\* The paragraph properties directly under a w:p (none when it has no w:pPr).
PropsOf(p) == [kids |-> SelectSeq(p.kids, IsPPr)]

\* vals holds the one size 2 * s the style's font size s asks for, or nothing
\* when the style sets none.
SizeConverted(vals, st) ==
  IF st.present /\ truthy(st.fontSize)
    THEN \E v \in vals : vals = {v} /\ Parsed(v[1]) * st.fontSize.d = 2 * st.fontSize.n
    ELSE vals = {}

\* vals holds the one spacing round(m * 240), rule auto, the style's line
\* spacing m asks for, or nothing when the style sets none.
SpacingConverted(vals, st) ==
  IF st.present /\ truthy(st.lineSpacing)
    THEN \E v \in vals :
           vals = {v} /\ Nearest(Parsed(v[1]), st.lineSpacing, 240) /\ v[2] = <<"auto">>
    ELSE vals = {}

\* The font size of the style in force, in the run properties of a text run
\* and of a link, in the paragraph-wide run properties of a paragraph and in
\* the run of a top-level styled text.
SizesConverted ==
  /\ Called("createText") =>
       SizeConverted(ValsOf(Appended, "w:sz"),
                     InheritedStyle(element.node, element.defaultStyle))
  /\ Called("createlink") => SizeConverted(ValsOf(Appended, "w:sz"), element.node.style)
  /\ (Called("createParagraph") /\ element.err = "") =>
       SizeConverted(ValsOf(PropsOf(Appended), "w:sz"), element.node.style)
  /\ (Called("partItem") /\ element.node.type = "text") =>
       SizeConverted(ValsOf(Appended, "w:sz"), element.node.style)

\* The line spacing of the style, in the paragraph properties of a paragraph
\* and of a top-level styled text.
ParagraphSpacingConverted ==
  /\ (Called("createParagraph") /\ element.err = "") =>
       SpacingConverted(ValsOf(PropsOf(Appended), "w:spacing"), element.node.style)
  /\ (Called("partItem") /\ element.node.type = "text") =>
       SpacingConverted(ValsOf(PropsOf(Appended), "w:spacing"), element.node.style)

\* C27 as stated. A font size s is emitted as size 2 * s and a line spacing
\* m as spacing round(m * 240) with rule auto, for every style that sets
\* them, in text runs and links as in paragraphs and top-level styled text; a
\* style that does not set the field emits no such instruction.
C27_ConvertedEverywhere ==
  /\ SizesConverted
  /\ ParagraphSpacingConverted
  /\ Called("createText") =>
       SpacingConverted(ValsOf(Appended, "w:spacing"),
                        InheritedStyle(element.node, element.defaultStyle))
  /\ Called("createlink") => SpacingConverted(ValsOf(Appended, "w:spacing"), element.node.style)

\* C27, amended. A font size s is emitted as size 2 * s in text runs, links,
\* paragraphs and top-level styled text, and a line spacing m as spacing
\* round(m * 240) with rule auto in the paragraph properties of paragraphs
\* and of top-level styled text; a style that does not set the field emits no
\* such instruction.  A text run and a link emit no spacing, whatever line
\* spacing their style sets.
C27_ConvertedWhereEmitted ==
  /\ SizesConverted
  /\ ParagraphSpacingConverted
  /\ (Called("createText") \/ Called("createlink")) => ValsOf(Appended, "w:spacing") = {}

\* A paragraph of font size 12 and line spacing 1.5: size 24 and spacing 360,
\* rule auto, in its properties.
C27_Witness ==
  /\ Called("createParagraph")
  /\ element.node.style.fontSize = Num(12, 1) /\ element.node.style.lineSpacing = Num(3, 2)
  /\ ValsOf(PropsOf(Appended), "w:sz") = {<<ToStr(24)>>}
  /\ ValsOf(PropsOf(Appended), "w:spacing") = {<<ToStr(360), <<"auto">>>>}

RECURSIVE RefsOf(_)
\* The relationship references at or below el: the tag of each element that
\* carries an id, with that id.
RefsOf(el) ==
  (IF el.rid # Undefined THEN {<<el.tag, el.rid>>} ELSE {})
  \cup UNION { RefsOf(el.kids[k]) : k \in 1..Len(el.kids) }

\* The relationship type a referencing element asks for.
KindOf(tag) ==
  CASE tag = "w:hyperlink" -> TypeHyperlink
    [] tag = "a:blip" -> TypeImage
    [] tag = "w:headerReference" -> TypeHeader
    [] tag = "w:footerReference" -> TypeFooter
    [] OTHER -> ""

\* The references of the main document, the header and the footer of a
\* package.
ReferencesOf(zip) ==
  UNION { RefsOf(PartAt(zip, path).xml) :
            path \in { q \in {DocumentPath, HeaderPath, FooterPath} : HasPart(zip, q) } }

RecordsOf(rels, id) == { i \in 1..Len(rels) : rels[i].Id = id }

\* C28. A handed package has no dangling relationship id: every id
\* referenced from word/document.xml, word/header1.xml or word/footer1.xml
\* (hyperlink, image blip, header or footer reference) is the id of exactly
\* one record of word/_rels/document.xml.rels, and that record is of the
\* matching type.
C28_NoDanglingId ==
  \A c \in HandedCalls :
    \A ref \in ReferencesOf(calls[c].sunk) :
      /\ Cardinality(RecordsOf(RelsOf(calls[c].sunk), ref[2])) = 1
      /\ \A i \in RecordsOf(RelsOf(calls[c].sunk), ref[2]) :
           RelsOf(calls[c].sunk)[i].Type = KindOf(ref[1])

\* A handed package whose parts reference a hyperlink, an image and the
\* header.
C28_Witness ==
  \E c \in HandedCalls :
    { KindOf(ref[1]) : ref \in ReferencesOf(calls[c].sunk) }
      = {TypeHyperlink, TypeImage, TypeHeader}

\* A header / footer definition that is given with an empty content sequence.
GivenEmpty(hf) == hf.present /\ hf.content = <<>>

\* Nothing of one part in a package: no part, no relationship of its type,
\* no content-types override, no reference in the section properties.
Absent(zip, path, override, type, tag) ==
  /\ ~HasPart(zip, path)
  /\ RelsOfType(zip, type) = {}
  /\ override \notin Overrides(zip)
  /\ RefIds(PartAt(zip, DocumentPath).xml, tag) = {}

\* C29. A header (footer) definition whose content sequence is empty is
\* treated as absent: the handed package has no header (footer) part, no
\* header (footer) relationship, no header (footer) override in the content
\* types and no header (footer) reference in the section properties.
C29_EmptyHeaderFooterAbsent ==
  \A c \in HandedCalls :
    /\ GivenEmpty(definition.header) =>
         Absent(calls[c].sunk, HeaderPath, "/word/header1.xml", TypeHeader, "w:headerReference")
    /\ GivenEmpty(definition.footer) =>
         Absent(calls[c].sunk, FooterPath, "/word/footer1.xml", TypeFooter, "w:footerReference")

\* A handed package for a definition whose header is given empty and whose
\* footer has content: the footer is wired as rId3, after its own link and
\* image, and nothing of a header is there.
C29_Witness ==
  \E c \in HandedCalls :
    /\ GivenEmpty(definition.header)
    /\ HasPart(calls[c].sunk, FooterPath)
    /\ RefIds(PartAt(calls[c].sunk, DocumentPath).xml, "w:footerReference") = {<<"rId", "3">>}
    /\ Absent(calls[c].sunk, HeaderPath, "/word/header1.xml", TypeHeader, "w:headerReference")

\* The (path, content) parts of a package, as a set.
PartsOf(zip) == { zip[i] : i \in 1..Len(zip) }

\* C30. Generation is repeatable: every call on an instance, the first as
\* one made after earlier calls have left their entries in the registries,
\* hands its sink the set of (path, content) parts that a freshly constructed
\* generator hands over for the same definition; calls made one after another
\* on the same instance therefore hand over identical sets.
C30_Repeatable ==
  \A c \in HandedCalls : PartsOf(calls[c].sunk) = PartsOf(AlonePackage(definition))

\* A call that began with an earlier call's entries in both registries has
\* handed over the fresh generator's parts, relationships and media among
\* them.
C30_Witness ==
  \E c \in HandedCalls :
    /\ calls[c].stale
    /\ PartsOf(calls[c].sunk) = PartsOf(AlonePackage(definition))
    /\ Len(RelsOf(calls[c].sunk)) >= 2
    /\ Cardinality(MediaOf(calls[c].sunk)) >= 1

====
